---- MODULE Spec2Model ----
(***************************************************************************)
(* ParseKIT: the delimited-text <-> structured-record conversion engines.  *)
(*                                                                         *)
(* CSVToJSONConverter is modelled from its latest revision (the second     *)
(* class of src/unnamed/part_000, lines 440-1006); parseLineBase is the    *)
(* tokenizer of the earlier revision src/js/csvToJson.js, which has no     *)
(* backslash rule.  JSONToCSVConverter is src/js/jsonToCsv.js.             *)
(*                                                                         *)
(* A JavaScript string is a sequence of one-character strings.  A          *)
(* JavaScript value is a record with a tag t and one field per kind of     *)
(* payload, so that any two values can be compared.                        *)
(***************************************************************************)
EXTENDS Integers, Sequences, FiniteSets, TLC

\* ------------------------------------------------------------------------
\* Characters
\* ------------------------------------------------------------------------
QUOTE == "\""
BACKSLASH == "\\"
LF == "\n"
CR == "\r"
TAB == "\t"
SPACE == " "
BOM == "BOM"

\* String.prototype.trim and the StrWhiteSpaceChar of Number(): of the
\* characters that occur in the model these are white space (U+FEFF is one).
WhiteSpace == {SPACE, TAB, LF, CR, BOM}

Digits == {"0", "1", "2", "3", "4", "5", "6", "7", "8", "9"}

DigitVal(c) ==
    CASE c = "0" -> 0 [] c = "1" -> 1 [] c = "2" -> 2 [] c = "3" -> 3
      [] c = "4" -> 4 [] c = "5" -> 5 [] c = "6" -> 6 [] c = "7" -> 7
      [] c = "8" -> 8 [] c = "9" -> 9

DigitChar(d) ==
    CASE d = 0 -> "0" [] d = 1 -> "1" [] d = 2 -> "2" [] d = 3 -> "3"
      [] d = 4 -> "4" [] d = 5 -> "5" [] d = 6 -> "6" [] d = 7 -> "7"
      [] d = 8 -> "8" [] d = 9 -> "9"

\* String.prototype.toLowerCase on one character.
LowerChar(c) ==
    CASE c = "A" -> "a" [] c = "E" -> "e" [] c = "F" -> "f" [] c = "L" -> "l"
      [] c = "N" -> "n" [] c = "R" -> "r" [] c = "S" -> "s" [] c = "T" -> "t"
      [] c = "U" -> "u" [] c = "I" -> "i" [] c = "Y" -> "y"
      [] OTHER -> c

toLowerCase(s) == [i \in 1..Len(s) |-> LowerChar(s[i])]

\* ------------------------------------------------------------------------
\* Strings
\* ------------------------------------------------------------------------
includes(s, c) == \E i \in 1..Len(s) : s[i] = c

RECURSIVE TrimStart(_)
TrimStart(s) ==
    IF s # <<>> /\ Head(s) \in WhiteSpace THEN TrimStart(Tail(s)) ELSE s

RECURSIVE TrimEnd(_)
TrimEnd(s) ==
    IF s # <<>> /\ s[Len(s)] \in WhiteSpace
    THEN TrimEnd(SubSeq(s, 1, Len(s) - 1))
    ELSE s

trim(s) == TrimEnd(TrimStart(s))

\* The strings of ss one after the other; the two halves of ss are
\* concatenated on their own.
RECURSIVE Concat(_)
Concat(ss) ==
    IF Len(ss) = 0 THEN <<>>
    ELSE IF Len(ss) = 1 THEN ss[1]
    ELSE Concat(SubSeq(ss, 1, Len(ss) \div 2))
         \o Concat(SubSeq(ss, Len(ss) \div 2 + 1, Len(ss)))

\* Array.prototype.join of strings with a separator string.
RECURSIVE join(_, _)
join(ss, sep) ==
    IF Len(ss) = 0 THEN <<>>
    ELSE IF Len(ss) = 1 THEN ss[1]
    ELSE join(SubSeq(ss, 1, Len(ss) \div 2), sep) \o sep
         \o join(SubSeq(ss, Len(ss) \div 2 + 1, Len(ss)), sep)

\* String.prototype.split(/\r?\n/): a line ends at LF, or at CR LF.
\* The positions of the line feeds of s, and the position of the k-th.
LineFeeds(s) == {i \in 1..Len(s) : s[i] = LF}

LineFeedAt(s, k) ==
    CHOOSE i \in LineFeeds(s) : Cardinality({j \in LineFeeds(s) : j <= i}) = k

\* The k-th line starts after the line feed before it and ends before its
\* own line feed, or before the CR in front of that.
LineStart(s, k) == IF k = 1 THEN 1 ELSE LineFeedAt(s, k - 1) + 1

LineEnd(s, k) ==
    IF k > Cardinality(LineFeeds(s)) THEN Len(s)
    ELSE IF LineFeedAt(s, k) - 1 >= LineStart(s, k) /\ s[LineFeedAt(s, k) - 1] = CR
         THEN LineFeedAt(s, k) - 2
    ELSE LineFeedAt(s, k) - 1

splitLines(s) ==
    [k \in 1..(Cardinality(LineFeeds(s)) + 1) |-> SubSeq(s, LineStart(s, k), LineEnd(s, k))]

\* String.prototype.split(sep) for a non-empty separator string: the text
\* is read from the left, st holding the position i, the piece cur being
\* read and the pieces closed so far.  One pass closes the piece at a
\* separator and steps over it, or takes the character at i into the piece.
SplitPass(s, sep, st) ==
    IF st.i + Len(sep) - 1 <= Len(s) /\ SubSeq(s, st.i, st.i + Len(sep) - 1) = sep
    THEN [i |-> st.i + Len(sep), cur |-> <<>>, pieces |-> Append(st.pieces, st.cur)]
    ELSE [i |-> st.i + 1, cur |-> Append(st.cur, s[st.i]), pieces |-> st.pieces]

\* The passes until the end of s, at most n, taken half by half.
RECURSIVE SplitPasses(_, _, _, _)
SplitPasses(s, sep, st, n) ==
    IF st.i > Len(s) THEN st
    ELSE IF n = 1 THEN SplitPass(s, sep, st)
    ELSE SplitPasses(s, sep, SplitPasses(s, sep, st, n \div 2), n - n \div 2)

SplitPieces(st) == Append(st.pieces, st.cur)

splitOn(s, sep) ==
    SplitPieces(SplitPasses(s, sep, [i |-> 1, cur |-> <<>>, pieces |-> <<>>], Len(s)))

\* All strings over an alphabet up to a length.
RECURSIVE StringsUpTo(_, _)
StringsUpTo(alphabet, n) ==
    IF n = 0 THEN {<<>>}
    ELSE LET shorter == StringsUpTo(alphabet, n - 1)
         IN  shorter \cup {Append(s, c) : s \in shorter, c \in alphabet}

\* ------------------------------------------------------------------------
\* JavaScript values
\* ------------------------------------------------------------------------
\* t: "undef", "null", "bool", "num", "str", "arr", "obj".
\* b: the boolean.  sp/m/e: the number, sp one of "fin", "nan", "inf",
\* "-inf" and, when "fin", the value m * 10^e with m not divisible by 10
\* (m = 0 has e = 0; -0 and 0 are one value, as they are for ===, String and
\* JSON.stringify).  s: the string.  a: the array's elements.  o: the
\* object's own enumerable properties in enumeration order, each [k, v].
Mk(t, b, sp, m, e, s, a, o) ==
    [t |-> t, b |-> b, sp |-> sp, m |-> m, e |-> e, s |-> s, a |-> a, o |-> o]

Undef == Mk("undef", FALSE, "", 0, 0, <<>>, <<>>, <<>>)
Null == Mk("null", FALSE, "", 0, 0, <<>>, <<>>, <<>>)
Bool(b) == Mk("bool", b, "", 0, 0, <<>>, <<>>, <<>>)
Fin(m, e) == Mk("num", FALSE, "fin", m, e, <<>>, <<>>, <<>>)
NaN == Mk("num", FALSE, "nan", 0, 0, <<>>, <<>>, <<>>)
PosInf == Mk("num", FALSE, "inf", 0, 0, <<>>, <<>>, <<>>)
NegInf == Mk("num", FALSE, "-inf", 0, 0, <<>>, <<>>, <<>>)
Str(s) == Mk("str", FALSE, "", 0, 0, s, <<>>, <<>>)
Arr(a) == Mk("arr", FALSE, "", 0, 0, <<>>, a, <<>>)
Obj(o) == Mk("obj", FALSE, "", 0, 0, <<>>, <<>>, o)

isNaN(v) == v.t = "num" /\ v.sp = "nan"
isFinite(v) == v.t = "num" /\ v.sp = "fin"

\* ToBoolean, as used by !x, x || y and if (x).
Truthy(v) ==
    CASE v.t \in {"undef", "null"} -> FALSE
      [] v.t = "bool" -> v.b
      [] v.t = "num" -> ~(v.sp = "nan" \/ (v.sp = "fin" /\ v.m = 0))
      [] v.t = "str" -> v.s # <<>>
      [] OTHER -> TRUE

\* ------------------------------------------------------------------------
\* Number(string) and String(number)
\* ------------------------------------------------------------------------
AllDigits(s) == \A i \in 1..Len(s) : s[i] \in Digits

RECURSIVE DigitsToInt(_)
DigitsToInt(s) ==
    IF s = <<>> THEN 0
    ELSE 10 * DigitsToInt(SubSeq(s, 1, Len(s) - 1)) + DigitVal(s[Len(s)])

RECURSIVE IntToDigits(_)
IntToDigits(n) ==
    IF n < 10 THEN <<DigitChar(n)>>
    ELSE Append(IntToDigits(n \div 10), DigitChar(n % 10))

\* First position of a character of cs in s, 0 when there is none.
FirstIndex(s, cs) ==
    IF \E i \in 1..Len(s) : s[i] \in cs
    THEN CHOOSE i \in 1..Len(s) : s[i] \in cs /\ \A j \in 1..(i - 1) : s[j] \notin cs
    ELSE 0

RECURSIVE StripZeros(_, _)
StripZeros(m, e) ==
    IF m = 0 THEN <<0, 0>>
    ELSE IF m % 10 = 0 THEN StripZeros(m \div 10, e + 1)
    ELSE <<m, e>>

InfinityWord == <<"I", "n", "f", "i", "n", "i", "t", "y">>

\* The number of sign neg and magnitude me[1] * 10^me[2] as a double: its
\* decimal exponent lies between -324 and 308, beyond it is Infinity or 0.
Rounded(neg, me) ==
    IF me[1] = 0 THEN Fin(0, 0)
    ELSE IF Len(IntToDigits(me[1])) + me[2] - 1 > 308 THEN (IF neg THEN NegInf ELSE PosInf)
    ELSE IF Len(IntToDigits(me[1])) + me[2] - 1 < -324 THEN Fin(0, 0)
    ELSE Fin(IF neg THEN 0 - me[1] ELSE me[1], me[2])

\* The decimal literal with integer digits ip, fraction digits fp and
\* exponent expVal; one of ip and fp may be empty, not both.
Decimal(neg, ip, fp, expVal) ==
    IF AllDigits(ip) /\ AllDigits(fp) /\ Len(ip) + Len(fp) >= 1
    THEN Rounded(neg, StripZeros(DigitsToInt(ip \o fp), expVal - Len(fp)))
    ELSE NaN

\* The digits around the decimal point at position dot of mant (0: none).
Mantissa(neg, mant, dot, expVal) ==
    Decimal(neg,
            IF dot = 0 THEN mant ELSE SubSeq(mant, 1, dot - 1),
            IF dot = 0 THEN <<>> ELSE SubSeq(mant, dot + 1, Len(mant)),
            expVal)

\* The exponent part: at least one digit after the optional sign.
Exponent(neg, mant, expNeg, expDigits) ==
    IF expDigits # <<>> /\ AllDigits(expDigits)
    THEN Mantissa(neg, mant, FirstIndex(mant, {"."}),
                  IF expNeg THEN 0 - DigitsToInt(expDigits) ELSE DigitsToInt(expDigits))
    ELSE NaN

\* The sign of the exponent part expo.
Parts(neg, mant, expo) ==
    Exponent(neg, mant, expo # <<>> /\ Head(expo) = "-",
             IF expo # <<>> /\ Head(expo) \in {"+", "-"} THEN Tail(expo) ELSE expo)

\* The literal u after its sign: Infinity, or a decimal literal with an
\* exponent part after the e at position ePos (0: none).
Unsigned(neg, u, ePos) ==
    IF u = InfinityWord THEN (IF neg THEN NegInf ELSE PosInf)
    ELSE IF ePos = 0 THEN Mantissa(neg, u, FirstIndex(u, {"."}), 0)
    ELSE Parts(neg, SubSeq(u, 1, ePos - 1), SubSeq(u, ePos + 1, Len(u)))

Signed(neg, u) == Unsigned(neg, u, FirstIndex(u, {"e", "E"}))

\* Number(s) for a string s: the StringNumericLiteral grammar (white space
\* stripped; empty is 0; an optional sign, then Infinity or a decimal literal
\* with an optional exponent part).  The radix prefixes 0x, 0o, 0b need a
\* letter that no modelled string contains.
ToNumber(str) ==
    IF trim(str) = <<>> THEN Fin(0, 0)
    ELSE Signed(Head(trim(str)) = "-",
                IF Head(trim(str)) \in {"+", "-"} THEN Tail(trim(str)) ELSE trim(str))

Zeros(n) == [i \in 1..n |-> "0"]

\* The text of the magnitude with digits ds and decimal point after the
\* n-th digit: plain, with a fraction, or in exponent notation.
DecimalText(ds, n) ==
    IF Len(ds) <= n /\ n <= 21 THEN ds \o Zeros(n - Len(ds))
    ELSE IF 0 < n /\ n <= 21
         THEN SubSeq(ds, 1, n) \o <<".">> \o SubSeq(ds, n + 1, Len(ds))
    ELSE IF -6 < n /\ n <= 0
         THEN <<"0", ".">> \o Zeros(0 - n) \o ds
    ELSE (IF Len(ds) = 1 THEN ds ELSE <<ds[1], ".">> \o Tail(ds))
         \o <<"e">> \o (IF n - 1 < 0 THEN <<"-">> ELSE <<"+">>)
         \o IntToDigits(IF n - 1 < 0 THEN 1 - n ELSE n - 1)

\* Number.prototype.toString (radix 10).
NumberToString(v) ==
    IF v.sp = "nan" THEN <<"N", "a", "N">>
    ELSE IF v.sp = "inf" THEN InfinityWord
    ELSE IF v.sp = "-inf" THEN <<"-">> \o InfinityWord
    ELSE IF v.m = 0 THEN <<"0">>
    ELSE IF v.m < 0
    THEN <<"-">> \o DecimalText(IntToDigits(0 - v.m), Len(IntToDigits(0 - v.m)) + v.e)
    ELSE DecimalText(IntToDigits(v.m), Len(IntToDigits(v.m)) + v.e)

NullWord == <<"n", "u", "l", "l">>
TrueWord == <<"t", "r", "u", "e">>
FalseWord == <<"f", "a", "l", "s", "e">>

\* String(v) for a primitive v; it is also the property key obj[v] uses.
StringOf(v) ==
    CASE v.t = "undef" -> <<"u", "n", "d", "e", "f", "i", "n", "e", "d">>
      [] v.t = "null" -> NullWord
      [] v.t = "bool" -> (IF v.b THEN TrueWord ELSE FalseWord)
      [] v.t = "num" -> NumberToString(v)
      [] v.t = "str" -> v.s

\* ------------------------------------------------------------------------
\* CSVToJSONConverter: Value Coercion and the Field Tokenizer
\* ------------------------------------------------------------------------
\* processField(field) under the options opt.
processField(opt, field) ==
    LET ParseNumber(value, num) ==
            IF opt.parseNumbers /\ value # <<>> /\ ~isNaN(num) THEN num
            ELSE Str(value)
        ParseBoolean(value, lower) ==
            IF opt.parseBooleans /\ lower = TrueWord THEN Bool(TRUE)
            ELSE IF opt.parseBooleans /\ lower = FalseWord THEN Bool(FALSE)
            ELSE ParseNumber(value, ToNumber(value))
        ParseNull(value) ==
            IF opt.parseNulls
               /\ (value = NullWord \/ value = <<"N", "U", "L", "L">> \/ value = <<>>)
            THEN Null
            ELSE ParseBoolean(value, toLowerCase(value))
    IN  ParseNull(IF opt.trimValues THEN trim(field) ELSE field)

\* char === delimiter: a one-character string compared with the delimiter
\* argument, which is a string value or (in convertLarge) null.
IsDelimiter(char, delimiter) == delimiter.t = "str" /\ delimiter.s = <<char>>

\* The state of the tokenizer loop: the position i (1-based), inQuotes,
\* currentField and the fields pushed to result so far.
ScanState(i, inQuotes, currentField, fields) ==
    [i |-> i, inQuotes |-> inQuotes, currentField |-> currentField, fields |-> fields]

\* What the tokenizer hands back after the loop: result.push(currentField);
\* the quote state at the end of the line is kept with it.
ScanResult(st) ==
    [fields |-> Append(st.fields, st.currentField), inQuotes |-> st.inQuotes]

\* A variant of one pass of the tokenizer loop in which a delimiter closes
\* the field inside a quoted span too.
ScanPassQuoteBlind(line, delimiter, backslashRule, st) ==
    IF line[st.i] = QUOTE
    THEN IF st.inQuotes /\ st.i + 1 <= Len(line) /\ line[st.i + 1] = QUOTE
         THEN ScanState(st.i + 2, st.inQuotes, Append(st.currentField, QUOTE), st.fields)
         ELSE ScanState(st.i + 1, ~st.inQuotes, st.currentField, st.fields)
    ELSE IF IsDelimiter(line[st.i], delimiter)
    THEN ScanState(st.i + 1, st.inQuotes, <<>>, Append(st.fields, st.currentField))
    ELSE IF backslashRule /\ line[st.i] = BACKSLASH /\ st.i + 1 <= Len(line)
            /\ IsDelimiter(line[st.i + 1], delimiter) /\ ~st.inQuotes
    THEN ScanState(st.i + 2, st.inQuotes, st.currentField \o delimiter.s, st.fields)
    ELSE ScanState(st.i + 1, st.inQuotes, Append(st.currentField, line[st.i]), st.fields)

RECURSIVE ScanPassesQuoteBlind(_, _, _, _, _)
ScanPassesQuoteBlind(line, delimiter, backslashRule, st, n) ==
    IF st.i > Len(line) THEN st
    ELSE IF n = 1 THEN ScanPassQuoteBlind(line, delimiter, backslashRule, st)
    ELSE ScanPassesQuoteBlind(line, delimiter, backslashRule,
                              ScanPassesQuoteBlind(line, delimiter, backslashRule, st, n \div 2),
                              n - n \div 2)

ScanLineQuoteBlind(line, delimiter, backslashRule, i, inQuotes, currentField, fields) ==
    ScanResult(ScanPassesQuoteBlind(line, delimiter, backslashRule,
                                    ScanState(i, inQuotes, currentField, fields), Len(line)))

\* One pass of the while loop of parseLine: the character at i is an
\* escaped quote (i advances by two), a quote, a delimiter outside quotes,
\* a backslash before a delimiter outside quotes (i advances by two), or
\* part of the field.
ScanPass(line, delimiter, backslashRule, st) ==
    IF line[st.i] = QUOTE
    THEN IF st.inQuotes /\ st.i + 1 <= Len(line) /\ line[st.i + 1] = QUOTE
         THEN ScanState(st.i + 2, st.inQuotes, Append(st.currentField, QUOTE), st.fields)
         ELSE ScanState(st.i + 1, ~st.inQuotes, st.currentField, st.fields)
    ELSE IF IsDelimiter(line[st.i], delimiter) /\ ~st.inQuotes
    THEN ScanState(st.i + 1, st.inQuotes, <<>>, Append(st.fields, st.currentField))
    ELSE IF backslashRule /\ line[st.i] = BACKSLASH /\ st.i + 1 <= Len(line)
            /\ IsDelimiter(line[st.i + 1], delimiter) /\ ~st.inQuotes
    THEN ScanState(st.i + 2, st.inQuotes, st.currentField \o delimiter.s, st.fields)
    ELSE ScanState(st.i + 1, st.inQuotes, Append(st.currentField, line[st.i]), st.fields)

\* The while loop of parseLine from the state st on: the passes until i
\* reaches line.length, of which there are at most n.  The passes are taken
\* half by half, the second half starting where the first ended.
RECURSIVE ScanPasses(_, _, _, _, _)
ScanPasses(line, delimiter, backslashRule, st, n) ==
    IF st.i > Len(line) THEN st
    ELSE IF n = 1 THEN ScanPass(line, delimiter, backslashRule, st)
    ELSE ScanPasses(line, delimiter, backslashRule,
                    ScanPasses(line, delimiter, backslashRule, st, n \div 2),
                    n - n \div 2)

\* The scanning loop of parseLine from position i (1-based) on; it yields
\* the raw field texts and the quote state at the end of the line.
ScanLine(line, delimiter, backslashRule, i, inQuotes, currentField, fields) ==
    ScanResult(ScanPasses(line, delimiter, backslashRule,
                          ScanState(i, inQuotes, currentField, fields), Len(line)))

\* parseLine(line, delimiter) of the latest revision: every field goes
\* through processField as it is closed.
parseLine(opt, line, delimiter) ==
    LET raw == ScanLine(line, delimiter, TRUE, 1, FALSE, <<>>, <<>>).fields
    IN  [i \in 1..Len(raw) |-> processField(opt, raw[i])]

\* parseLine of src/js/csvToJson.js: the same loop without the backslash rule.
parseLineBase(opt, line, delimiter) ==
    LET raw == ScanLine(line, delimiter, FALSE, 1, FALSE, <<>>, <<>>).fields
    IN  [i \in 1..Len(raw) |-> processField(opt, raw[i])]

\* ------------------------------------------------------------------------
\* JavaScript objects
\* ------------------------------------------------------------------------
\* An array index: the canonical decimal text of an integer.  (The upper
\* limit 2^32 - 2 is beyond every key of the model.)
IsArrayIndex(k) ==
    /\ k # <<>>
    /\ AllDigits(k)
    /\ (Len(k) = 1 \/ k[1] # "0")

HasKey(o, k) == \E i \in 1..Len(o) : o[i].k = k

\* obj[k] for an own property; undefined when there is none.  (Inherited
\* properties of Object.prototype have names longer than any modelled key.)
GetProp(o, k) ==
    IF HasKey(o, k) THEN o[CHOOSE i \in 1..Len(o) : o[i].k = k].v ELSE Undef

\* Where a new own property k is enumerated: array indices first, in
\* ascending numeric order, then the other keys in insertion order.
InsertPos(o, k) ==
    IF IsArrayIndex(k)
    THEN Cardinality({i \in 1..Len(o) :
            IsArrayIndex(o[i].k) /\ DigitsToInt(o[i].k) < DigitsToInt(k)}) + 1
    ELSE Len(o) + 1

\* obj[k] = v on the property list o.
SetProp(o, k, v) ==
    IF HasKey(o, k)
    THEN [i \in 1..Len(o) |-> IF o[i].k = k THEN [k |-> k, v |-> v] ELSE o[i]]
    ELSE LET p == InsertPos(o, k)
         IN  SubSeq(o, 1, p - 1) \o <<[k |-> k, v |-> v]>> \o SubSeq(o, p, Len(o))

Keys(o) == [i \in 1..Len(o) |-> o[i].k]

\* JSON.stringify(value, null, 2), represented by the value the text denotes:
\* a non-finite number is written as null and an undefined property is
\* left out.  Two texts are equal exactly when these values are equal.
RECURSIVE JSONstringify(_)
JSONstringify(v) ==
    CASE v.t = "num" -> (IF v.sp = "fin" THEN v ELSE Null)
      [] v.t = "undef" -> Null
      [] v.t = "arr" -> Arr([i \in 1..Len(v.a) |-> JSONstringify(v.a[i])])
      [] v.t = "obj" ->
           LET RECURSIVE Props(_)
               Props(o) ==
                 IF o = <<>> THEN <<>>
                 ELSE (IF Head(o).v.t = "undef" THEN <<>>
                       ELSE <<[k |-> Head(o).k, v |-> JSONstringify(Head(o).v)]>>)
                      \o Props(Tail(o))
           IN  Obj(Props(v.o))
      [] OTHER -> v

\* ------------------------------------------------------------------------
\* CSVToJSONConverter: detection, line splitting, row assembly
\* ------------------------------------------------------------------------
\* The outcome of a call that may throw.
Return(v) == [threw |-> FALSE, error |-> "", value |-> v]
Throw(msg) == [threw |-> TRUE, error |-> msg, value |-> <<>>]

removeBOM(text) ==
    IF text # <<>> /\ Head(text) = BOM THEN Tail(text) ELSE text

IsBlank(line) == Len(trim(line)) = 0

\* The number of lines detectDelimiter samples: slice(0, 5).
SampleLines == 5

\* The candidate delimiters of detectDelimiter, in its order.
delimiters == <<",", ";", TAB, "|">>

\* The callback of lines.map in detectDelimiter: occurrences of the
\* candidate while inQuotes is false, inQuotes toggling on every quote.
\* inQuotes at position i is its value at the start of the line, toggled
\* once for every quote before i.
CountOutsideQuotes(line, delimiter, inQuotes) ==
    Cardinality({i \in 1..Len(line) :
                   /\ line[i] # QUOTE
                   /\ line[i] = delimiter
                   /\ inQuotes <=> Cardinality({j \in 1..(i - 1) : line[j] = QUOTE}) % 2 = 1})

\* A variant of the loop over the candidates in which a later candidate of
\* equal consistency replaces the earlier one.
RECURSIVE DetectLoopLastWins(_, _, _, _)
DetectLoopLastWins(lines, d, bestDelimiter, maxConsistency) ==
    IF d > Len(delimiters) THEN bestDelimiter
    ELSE
      LET counts == [i \in 1..Len(lines) |-> CountOutsideQuotes(lines[i], delimiters[d], FALSE)]
          firstCount == counts[1]
          consistency == Cardinality({i \in 1..Len(counts) : counts[i] = firstCount})
      IN  IF consistency >= maxConsistency /\ firstCount > 0
          THEN DetectLoopLastWins(lines, d + 1, Str(<<delimiters[d]>>), consistency)
          ELSE DetectLoopLastWins(lines, d + 1, bestDelimiter, maxConsistency)

\* The loop over the candidates.  consistency is a quotient with the same
\* denominator (the number of sampled lines) for every candidate, so it is
\* carried as its numerator.
RECURSIVE DetectLoop(_, _, _, _)
DetectLoop(lines, d, bestDelimiter, maxConsistency) ==
    IF d > Len(delimiters) THEN bestDelimiter
    ELSE
      LET counts == [i \in 1..Len(lines) |-> CountOutsideQuotes(lines[i], delimiters[d], FALSE)]
          firstCount == counts[1]
          consistency == Cardinality({i \in 1..Len(counts) : counts[i] = firstCount})
      IN  IF consistency > maxConsistency /\ firstCount > 0
          THEN DetectLoop(lines, d + 1, Str(<<delimiters[d]>>), consistency)
          ELSE DetectLoop(lines, d + 1, bestDelimiter, maxConsistency)

NonBlankLines(csvString) ==
    LET NotBlank(line) == ~IsBlank(line)
    IN  SelectSeq(splitLines(csvString), NotBlank)

detectDelimiter(csvString) ==
    LET nonBlank == NonBlankLines(csvString)
        lines == SubSeq(nonBlank, 1, IF Len(nonBlank) < SampleLines THEN Len(nonBlank) ELSE SampleLines)
    IN  IF Len(lines) = 0 THEN Null
        ELSE DetectLoop(lines, 1, Null, 0)

\* parseCSV: blank lines are skipped whatever skipEmptyLines says.
parseCSV(opt, csvString, delimiter) ==
    LET lines == NonBlankLines(csvString)
    IN  [i \in 1..Len(lines) |-> parseLine(opt, lines[i], delimiter)]

normalizeRowLengths(rows, expectedLength) ==
    [r \in 1..Len(rows) |->
        IF Len(rows[r]) = expectedLength THEN rows[r]
        ELSE IF Len(rows[r]) < expectedLength
             THEN rows[r] \o [i \in 1..(expectedLength - Len(rows[r])) |-> Null]
        ELSE SubSeq(rows[r], 1, expectedLength)]

\* The loop of parseWithRecovery over the lines, from line lineNum (1-based)
\* on.  parseLine does not throw for a string, so the catch branch is never
\* taken; inQuotes is only ever assigned false.
RECURSIVE RecoveryLoop(_, _, _, _, _, _, _, _)
RecoveryLoop(opt, lines, delimiter, lineNum, rows, currentRow, currentField, inQuotes) ==
    IF lineNum > Len(lines) THEN rows
    ELSE IF inQuotes /\ includes(lines[lineNum], QUOTE)
    THEN RecoveryLoop(opt, lines, delimiter, lineNum + 1,
                      Append(rows, Append(currentRow,
                                          Str(currentField \o <<LF>> \o lines[lineNum]))),
                      <<>>, <<>>, FALSE)
    ELSE IF inQuotes
    THEN RecoveryLoop(opt, lines, delimiter, lineNum + 1, rows, currentRow,
                      currentField \o <<LF>> \o lines[lineNum], inQuotes)
    ELSE RecoveryLoop(opt, lines, delimiter, lineNum + 1,
                      Append(rows, parseLine(opt, lines[lineNum], delimiter)),
                      currentRow, currentField, inQuotes)

\* parseWithRecovery(csvString, delimiter): the parsed rows.
parseWithRecovery(opt, csvString, delimiter) ==
    RecoveryLoop(opt, splitLines(csvString), delimiter, 1, <<>>, <<>>, <<>>, FALSE)

\* Number(value) for a primitive.
NumberOf(v) ==
    CASE v.t = "num" -> v
      [] v.t = "bool" -> (IF v.b THEN Fin(1, 0) ELSE Fin(0, 0))
      [] v.t = "null" -> Fin(0, 0)
      [] v.t = "str" -> ToNumber(v.s)
      [] OTHER -> NaN

\* convertToType(value, type) for the types 'string', 'number', 'boolean'
\* and an unknown type; 'date' goes through the host's Date parser and is
\* not configured in any modelled engine.
convertToType(value, type) ==
    LET AsNumber(num) == IF isNaN(num) THEN Null ELSE num
        AsBoolean(lower) ==
            IF lower \in {TrueWord, <<"1">>, <<"y", "e", "s">>} THEN Bool(TRUE)
            ELSE IF lower \in {FalseWord, <<"0">>, <<"n", "o">>} THEN Bool(FALSE)
            ELSE Null
        Switch(ty) ==
            IF ty = <<"s", "t", "r", "i", "n", "g">> THEN Str(StringOf(value))
            ELSE IF ty = <<"n", "u", "m", "b", "e", "r">> THEN AsNumber(NumberOf(value))
            ELSE IF ty = <<"b", "o", "o", "l", "e", "a", "n">>
            THEN (IF value.t = "bool" THEN value
                  ELSE AsBoolean(toLowerCase(StringOf(value))))
            ELSE value
    IN  IF value.t \in {"null", "undef"} THEN Null
        ELSE Switch(toLowerCase(type.s))

\* setNestedValue(obj, path, value) on the property list o, keys being
\* path.split('.').
RECURSIVE SetPath(_, _, _)
SetPath(o, keys, value) ==
    IF Len(keys) = 1 THEN SetProp(o, keys[1], value)
    ELSE LET cur == GetProp(o, keys[1])
             child == IF ~Truthy(cur) \/ cur.t # "obj" THEN <<>> ELSE cur.o
         IN  SetProp(o, keys[1], Obj(SetPath(child, Tail(keys), value)))

setNestedValue(o, path, value) == SetPath(o, splitOn(path, <<".">>), value)

\* headers.map of rowsToJSON: headerMapping[header] when it is truthy.
MapHeader(opt, header) ==
    IF Truthy(opt.headerMapping) /\ Truthy(GetProp(opt.headerMapping.o, StringOf(header)))
    THEN GetProp(opt.headerMapping.o, StringOf(header))
    ELSE header

\* The inner loop of rowsToJSON from column i on; header.includes throws
\* for a header that is not a string.
RECURSIVE RowToObject(_, _, _, _, _, _)
RowToObject(opt, headers, mappedHeaders, row, i, o) ==
    LET Assign(header, value) ==
            IF opt.nestedOutput /\ header.t # "str"
            THEN Throw("header.includes is not a function")
            ELSE IF opt.nestedOutput /\ includes(header.s, ".")
            THEN RowToObject(opt, headers, mappedHeaders, row, i + 1,
                             setNestedValue(o, header.s, value))
            ELSE RowToObject(opt, headers, mappedHeaders, row, i + 1,
                             SetProp(o, StringOf(header), value))
        Convert(cell, type) ==
            Assign(mappedHeaders[i], IF Truthy(type) THEN convertToType(cell, type) ELSE cell)
    IN  IF i > Len(mappedHeaders) THEN Return(Obj(o))
        ELSE Convert(IF i <= Len(row) THEN row[i] ELSE Null,
                     GetProp(opt.columnTypes.o, StringOf(headers[i])))

\* rowsToJSON(headers, rows): an array of records, or with outputFormat
\* 'object' one object keyed by the record's index.
rowsToJSON(opt, headers, rows) ==
    LET Collect(objs) ==
            IF \E r \in 1..Len(rows) : objs[r].threw
            THEN objs[CHOOSE r \in 1..Len(rows) :
                        objs[r].threw /\ \A q \in 1..(r - 1) : ~objs[q].threw]
            ELSE IF opt.outputFormat = "object"
            THEN Return(Obj([r \in 1..Len(rows) |->
                               [k |-> IntToDigits(r - 1), v |-> objs[r].value]]))
            ELSE Return(Arr([r \in 1..Len(rows) |-> objs[r].value]))
    IN  Collect([r \in 1..Len(rows) |->
                   RowToObject(opt, headers,
                               [i \in 1..Len(headers) |-> MapHeader(opt, headers[i])],
                               rows[r], 1, <<>>)])

\* ------------------------------------------------------------------------
\* CSVToJSONConverter: convert and convertLarge
\* ------------------------------------------------------------------------
\* What a conversion call hands to its caller: threw when an exception left
\* the call; otherwise a result object (rows or columns absent: -1).
Result(success, error, data, parsed, rows, columns) ==
    [threw |-> FALSE, success |-> success, error |-> error, data |-> data,
     parsed |-> parsed, rows |-> rows, columns |-> columns]

Failure(message) == Result(FALSE, message, Null, Undef, -1, -1)

Escaped(message) ==
    [threw |-> TRUE, success |-> FALSE, error |-> message, data |-> Undef,
     parsed |-> Undef, rows |-> -1, columns |-> -1]

MaxOf(ns) == CHOOSE n \in ns : \A k \in ns : k <= n

ColumnName(i) == <<"c", "o", "l", "u", "m", "n">> \o IntToDigits(i)

\* row.some(cell => cell !== null && cell !== '')
HasContent(row) == \E i \in 1..Len(row) : row[i] # Null /\ row[i] # Str(<<>>)

\* convert, the result object: an exception of rowsToJSON reaches the catch,
\* which returns the failure object with the error's message.
convertResult(headers, normalizedRows, jsonData) ==
    IF jsonData.threw THEN Failure(jsonData.error)
    ELSE Result(TRUE, "", JSONstringify(jsonData.value), jsonData.value,
                Len(normalizedRows), Len(headers))

\* convert, from the normalization of the row lengths on.
convertRows(opt, headers, dataRows) ==
    convertResult(headers, normalizeRowLengths(dataRows, Len(headers)),
                  rowsToJSON(opt, headers, normalizeRowLengths(dataRows, Len(headers))))

\* convert, from the extraction of the headers on.
convertFiltered(opt, filteredRows) ==
    IF Len(filteredRows) = 0 THEN Failure("No valid data rows found")
    ELSE convertRows(opt,
                     IF Truthy(opt.customHeaders) THEN opt.customHeaders.a
                     ELSE IF opt.hasHeaders THEN filteredRows[1]
                     ELSE [i \in 1..MaxOf({Len(filteredRows[r]) : r \in 1..Len(filteredRows)})
                             |-> Str(ColumnName(i))],
                     IF opt.hasHeaders THEN Tail(filteredRows) ELSE filteredRows)

\* convert, from the filter of skipEmptyLines on.
convertParsed(opt, rows) ==
    IF Len(rows) = 0 THEN Failure("No data found in CSV")
    ELSE convertFiltered(opt, IF opt.skipEmptyLines THEN SelectSeq(rows, HasContent)
                              ELSE rows)

\* convert, from the check of the delimiter on.
convertDelimited(opt, csvString, delimiter) ==
    IF ~Truthy(delimiter)
    THEN Failure("Unable to detect CSV delimiter. Please specify delimiter manually.")
    ELSE convertParsed(opt, parseCSV(opt, csvString, delimiter))

\* convert(csvString): everything runs inside try, the catch returns the
\* failure object with the error's message.
convert(opt, input) ==
    IF input = <<>> \/ IsBlank(input) THEN Failure("Input is empty")
    ELSE convertDelimited(opt, removeBOM(input),
                          IF Truthy(opt.delimiter) THEN opt.delimiter
                          ELSE detectDelimiter(removeBOM(input)))

\* const chunkSize = 1000 in convertLarge.
chunkSize == 1000

\* The chunk loop of convertLarge from row offset i (0-based) on;
\* result.push(...chunkJSON) throws when chunkJSON is not an array.
RECURSIVE ChunkLoop(_, _, _, _, _)
ChunkLoop(opt, headers, dataRows, i, result) ==
    LET Push(chunkJSON) ==
            IF chunkJSON.threw THEN chunkJSON
            ELSE IF chunkJSON.value.t # "arr" THEN Throw("chunkJSON is not iterable")
            ELSE ChunkLoop(opt, headers, dataRows, i + chunkSize, result \o chunkJSON.value.a)
    IN  IF i >= Len(dataRows) THEN Return(result)
        ELSE Push(rowsToJSON(opt, headers,
                             SubSeq(dataRows, i + 1,
                                    IF i + chunkSize < Len(dataRows) THEN i + chunkSize
                                    ELSE Len(dataRows))))

\* convertLarge, from the extraction of the headers on.
convertLargeRows(opt, allRows) ==
    LET Emit(result) ==
            IF result.threw THEN Escaped(result.error)
            ELSE Result(TRUE, "", JSONstringify(Arr(result.value)), Arr(result.value),
                        Len(result.value), -1)
    IN  IF ~opt.hasHeaders /\ Len(allRows) = 0
        THEN Escaped("Cannot read properties of undefined (reading 'length')")
        ELSE Emit(ChunkLoop(opt,
                            IF ~opt.hasHeaders
                            THEN [i \in 1..Len(allRows[1]) |-> Str(ColumnName(i))]
                            ELSE IF Len(allRows) = 0 THEN <<>> ELSE allRows[1],
                            IF ~opt.hasHeaders THEN allRows
                            ELSE IF Len(allRows) = 0 THEN <<>> ELSE Tail(allRows),
                            0, <<>>))

\* convertLarge(csvString) without a progress callback: no try, no check of
\* the input or of the delimiter, no customHeaders, no normalization.
convertLarge(opt, csvString) ==
    convertLargeRows(opt, parseCSV(opt, csvString,
                                   IF Truthy(opt.delimiter) THEN opt.delimiter
                                   ELSE detectDelimiter(csvString)))

\* ------------------------------------------------------------------------
\* JSONToCSVConverter
\* ------------------------------------------------------------------------
\* String.prototype.includes for a non-empty search string.
includesStr(s, sub) ==
    \E i \in 1..(Len(s) - Len(sub) + 1) : SubSeq(s, i, i + Len(sub) - 1) = sub

\* stringValue.replace(new RegExp(quoteChar, 'g'), quoteChar + quoteChar)
\* for a one-character quoteChar.  The character is used as the pattern as
\* it is: '.' is the pattern that matches every character but a line
\* terminator, any other modelled quote character matches itself.
RegExpReplaceAll(stringValue, quoteChar) ==
    LET Matches(c) == IF quoteChar = <<".">> THEN c \notin {LF, CR} ELSE <<c>> = quoteChar
    IN  Concat([i \in 1..Len(stringValue) |->
                  IF Matches(stringValue[i]) THEN quoteChar \o quoteChar
                  ELSE <<stringValue[i]>>])

escapeValue(opt, stringValue) ==
    LET needsQuoting ==
            \/ includesStr(stringValue, opt.delimiter)
            \/ includesStr(stringValue, opt.quoteChar)
            \/ includes(stringValue, LF)
            \/ includes(stringValue, CR)
    IN  IF needsQuoting
        THEN opt.quoteChar \o RegExpReplaceAll(stringValue, opt.quoteChar) \o opt.quoteChar
        ELSE stringValue

\* The own enumerable properties of an object or an array (Object.keys).
OwnProps(v) ==
    IF v.t = "arr" THEN [i \in 1..Len(v.a) |-> [k |-> IntToDigits(i - 1), v |-> v.a[i]]]
    ELSE v.o

IsObject(v) == v.t \in {"obj", "arr"}

\* String(v) for every value: Array.prototype.toString joins with ',' and
\* writes null and undefined elements as '', an object is [object Object].
RECURSIVE StringOfAny(_)
StringOfAny(v) ==
    IF v.t = "arr"
    THEN join([i \in 1..Len(v.a) |->
                 IF v.a[i].t \in {"null", "undef"} THEN <<>> ELSE StringOfAny(v.a[i])], <<",">>)
    ELSE IF v.t = "obj"
    THEN <<"[", "o", "b", "j", "e", "c", "t", " ", "O", "b", "j", "e", "c", "t", "]">>
    ELSE StringOf(v)

\* A string between double quotes as JSON.stringify writes it.
JSONQuote(s) ==
    <<QUOTE>>
    \o Concat([i \in 1..Len(s) |->
          CASE s[i] = QUOTE -> <<BACKSLASH, QUOTE>>
            [] s[i] = BACKSLASH -> <<BACKSLASH, BACKSLASH>>
            [] s[i] = LF -> <<BACKSLASH, "n">>
            [] s[i] = CR -> <<BACKSLASH, "r">>
            [] s[i] = TAB -> <<BACKSLASH, "t">>
            [] OTHER -> <<s[i]>>])
    \o <<QUOTE>>

\* JSON.stringify(value): the compact text.
RECURSIVE JSONText(_)
JSONText(v) ==
    CASE v.t \in {"null", "undef"} -> NullWord
      [] v.t = "bool" -> StringOf(v)
      [] v.t = "num" -> (IF v.sp = "fin" THEN NumberToString(v) ELSE NullWord)
      [] v.t = "str" -> JSONQuote(v.s)
      [] v.t = "arr" ->
           <<"[">> \o join([i \in 1..Len(v.a) |-> JSONText(v.a[i])], <<",">>) \o <<"]">>
      [] v.t = "obj" ->
           LET props == SelectSeq(v.o, LAMBDA p : p.v.t # "undef")
           IN  <<"{">>
               \o join([i \in 1..Len(props) |->
                          JSONQuote(props[i].k) \o <<":">> \o JSONText(props[i].v)], <<",">>)
               \o <<"}">>

formatValue(opt, value) ==
    CASE value.t \in {"null", "undef"} -> <<>>
      [] value.t = "num" -> NumberToString(value)
      [] value.t = "arr" ->
           IF Len(value.a) = 0 THEN <<"[", "]">>
           ELSE IF opt.flattenObjects \/ opt.handleNestedArrays
                THEN escapeValue(opt, JSONText(value))
           ELSE escapeValue(opt,
                  join([i \in 1..Len(value.a) |->
                          IF value.a[i].t \in {"null", "undef"} THEN <<>>
                          ELSE StringOfAny(value.a[i])], <<";", " ">>))
      [] value.t = "obj" ->
           IF Len(value.o) = 0 THEN <<"{", "}">>
           ELSE IF opt.flattenObjects THEN escapeValue(opt, JSONText(value))
           ELSE escapeValue(opt,
                  join([i \in 1..Len(value.o) |->
                          value.o[i].k \o <<":">> \o StringOfAny(value.o[i].v)], <<";", " ">>))
      [] value.t = "bool" -> StringOf(value)
      [] value.t = "str" -> escapeValue(opt, value.s)

formatRow(opt, values) == join(values, opt.delimiter)

\* Array.from(keysSet) after adding keys one by one: first appearance order.
RECURSIVE AddAll(_, _)
AddAll(keysSet, keys) ==
    IF keys = <<>> THEN keysSet
    ELSE AddAll(IF \E i \in 1..Len(keysSet) : keysSet[i] = Head(keys)
                THEN keysSet ELSE Append(keysSet, Head(keys)),
                Tail(keys))

RECURSIVE ExtractAllKeysFrom(_, _, _)
ExtractAllKeysFrom(array, i, keysSet) ==
    IF i > Len(array) THEN keysSet
    ELSE ExtractAllKeysFrom(array, i + 1,
           IF IsObject(array[i]) THEN AddAll(keysSet, Keys(OwnProps(array[i]))) ELSE keysSet)

extractAllKeys(array) == ExtractAllKeysFrom(array, 1, <<>>)

\* extractKeysRecursive(obj, prefix, keysSet, depth): the keys it adds, in
\* the order it adds them.
RECURSIVE extractKeysRecursive(_, _, _, _)
extractKeysRecursive(opt, obj, prefix, depth) ==
    IF depth >= opt.maxNestingDepth THEN <<prefix>>
    ELSE
      LET props == OwnProps(obj)
          FullKey(key) == IF prefix # <<>> THEN prefix \o opt.nestingSeparator \o key ELSE key
      IN  Concat([i \in 1..Len(props) |->
                    IF props[i].v.t = "obj"
                    THEN extractKeysRecursive(opt, props[i].v, FullKey(props[i].k), depth + 1)
                    ELSE <<FullKey(props[i].k)>>])

RECURSIVE ExtractFlattenedKeysFrom(_, _, _, _)
ExtractFlattenedKeysFrom(opt, array, i, keysSet) ==
    IF i > Len(array) THEN keysSet
    ELSE ExtractFlattenedKeysFrom(opt, array, i + 1,
           IF IsObject(array[i])
           THEN AddAll(keysSet, extractKeysRecursive(opt, array[i], <<>>, 0))
           ELSE keysSet)

extractFlattenedKeys(opt, array) == ExtractFlattenedKeysFrom(opt, array, 1, <<>>)

\* getNestedValue(obj, path): `key in value` is true of the own properties
\* (inherited names such as length or constructor are longer than any
\* modelled key).
RECURSIVE GetPath(_, _)
GetPath(value, keys) ==
    IF keys = <<>> THEN value
    ELSE IF IsObject(value) /\ HasKey(OwnProps(value), Head(keys))
         THEN GetPath(GetProp(OwnProps(value), Head(keys)), Tail(keys))
    ELSE Undef

getNestedValue(opt, obj, path) == GetPath(obj, splitOn(path, opt.nestingSeparator))

\* convertArrayOfObjects: the cells of an item's row, allKeys.map(...).
ItemCells(opt, item, allKeys) ==
    [i \in 1..Len(allKeys) |->
        formatValue(opt, IF opt.flattenObjects
                         THEN getNestedValue(opt, item, allKeys[i])
                         ELSE GetProp(OwnProps(item), allKeys[i]))]

\* convertArrayOfObjects once allKeys is extracted: the header row, then
\* one row per item.
ArrayOfObjectsRows(opt, array, allKeys) ==
    (IF opt.includeHeaders
     THEN <<formatRow(opt, IF Truthy(opt.customHeaders)
                           THEN [i \in 1..Len(opt.customHeaders.a) |-> opt.customHeaders.a[i].s]
                           ELSE allKeys)>>
     ELSE <<>>)
    \o [r \in 1..Len(array) |->
          IF IsObject(array[r])
          THEN formatRow(opt, ItemCells(opt, array[r], allKeys))
          ELSE formatValue(opt, array[r])]

convertArrayOfObjects(opt, array) ==
    join(ArrayOfObjectsRows(opt, array,
                            IF opt.flattenObjects THEN extractFlattenedKeys(opt, array)
                            ELSE extractAllKeys(array)),
         opt.lineEnding)

convertSimpleArray(opt, array) ==
    join((IF opt.includeHeaders
          THEN <<escapeValue(opt, <<"v", "a", "l", "u", "e">>)>> ELSE <<>>)
         \o [i \in 1..Len(array) |-> formatValue(opt, array[i])],
         opt.lineEnding)

convertArray(opt, array) ==
    IF Len(array) = 0 THEN <<>>
    ELSE IF \E i \in 1..Len(array) : IsObject(array[i])
         THEN convertArrayOfObjects(opt, array)
    ELSE convertSimpleArray(opt, array)

convertObject(opt, obj) ==
    join((IF opt.includeHeaders THEN <<formatRow(opt, Keys(obj.o))>> ELSE <<>>)
         \o <<formatRow(opt, [i \in 1..Len(obj.o) |-> formatValue(opt, obj.o[i].v)])>>,
         opt.lineEnding)

\* hasCircularReference(data) for data that JSON.parse returned: a tree, in
\* which no object is met twice.
hasCircularReference(data) == FALSE

getColumnCount(opt, csvData) ==
    LET firstLine == splitOn(csvData, opt.lineEnding)[1]
    IN  IF firstLine = <<>> THEN 0 ELSE Len(splitOn(firstLine, opt.delimiter))

\* hasCircularReference(obj) for an object of a heap: heap[n] lists, in
\* enumeration order, the values of the own properties of object n, each an
\* object of the heap or 0 for a value that is not an object.  detect
\* yields its result and the set seen as it leaves it.
RECURSIVE detect(_, _, _)
RECURSIVE DetectKeys(_, _, _, _)
detect(heap, obj, seen) ==
    IF obj = 0 THEN [found |-> FALSE, seen |-> seen]
    ELSE IF obj \in seen THEN [found |-> TRUE, seen |-> seen]
    ELSE DetectKeys(heap, obj, 1, seen \cup {obj})

DetectKeys(heap, obj, key, seen) ==
    IF key > Len(heap[obj]) THEN [found |-> FALSE, seen |-> seen]
    ELSE IF detect(heap, heap[obj][key], seen).found
    THEN [found |-> TRUE, seen |-> detect(heap, heap[obj][key], seen).seen]
    ELSE DetectKeys(heap, obj, key + 1, detect(heap, heap[obj][key], seen).seen)

hasCircularReferenceIn(heap, obj) == detect(heap, obj, {}).found

\* updateOptions(options): this.options = { ...this.options, ...options }.
updateOptions(options, update) ==
    [f \in DOMAIN options |-> IF f \in DOMAIN update THEN update[f] ELSE options[f]]

\* Math.min(i + chunkSize, length): the end of the slice that is the chunk.
ChunkEnd(i, size, length) == IF i + size < length THEN i + size ELSE length

\* The arguments of the progress callback, were they the start of the chunk.
ProgressAtStart(i, size, length) == [processed |-> i, total |-> length]

\* The arguments of the progress callback after the chunk at i.
Progress(i, size, length) ==
    [processed |-> IF i + size < length THEN i + size ELSE length, total |-> length]

\* convertInChunks: what chunk.forEach appends to result, a row and a line
\* ending for every item that is an object.
ChunkPieces(opt, chunk, allKeys) ==
    [j \in 1..Len(SelectSeq(chunk, IsObject)) |->
        formatRow(opt, ItemCells(opt, SelectSeq(chunk, IsObject)[j], allKeys))
        \o opt.lineEnding]

\* convertInChunks: result before the loop.
ChunksHeader(opt, allKeys) ==
    IF opt.includeHeaders THEN <<formatRow(opt, allKeys) \o opt.lineEnding>> ELSE <<>>

\* convertLarge: headers and dataRows.
LargeHeaders(opt, allRows) ==
    IF ~opt.hasHeaders THEN [i \in 1..Len(allRows[1]) |-> Str(ColumnName(i))]
    ELSE IF Len(allRows) = 0 THEN <<>> ELSE allRows[1]

LargeDataRows(opt, allRows) ==
    IF ~opt.hasHeaders THEN allRows
    ELSE IF Len(allRows) = 0 THEN <<>> ELSE Tail(allRows)

\* The argument of JSONToCSVConverter.convert is a text; JSON.parse is the
\* host's, so a text is given by what JSON.parse makes of it: text is
\* "empty", "blank" (white space only), "invalid" (JSON.parse throws a
\* SyntaxError) or "json" (JSON.parse returns value).
JsonText(text, value) == [text |-> text, value |-> value]

\* JSONToCSVConverter.convert(jsonString); on success data is the CSV text.
jsonConvert(opt, jsonString) ==
    LET Emit(csvData) ==
            Result(TRUE, "", Str(csvData), Undef,
                   Len(splitOn(csvData, opt.lineEnding)) - (IF opt.includeHeaders THEN 1 ELSE 0),
                   getColumnCount(opt, csvData))
    IN  IF jsonString.text \in {"empty", "blank"} THEN Failure("Input is empty")
        ELSE IF jsonString.text = "invalid" THEN Failure("Unexpected token in JSON")
        ELSE IF hasCircularReference(jsonString.value)
             THEN Failure("JSON contains circular references which cannot be converted to CSV")
        ELSE IF ~IsObject(jsonString.value) THEN Failure("JSON must be an object or array")
        ELSE Emit(IF jsonString.value.t = "arr" THEN convertArray(opt, jsonString.value.a)
                  ELSE convertObject(opt, jsonString.value))

\* ------------------------------------------------------------------------
\* Validator
\* ------------------------------------------------------------------------
\* An entry of this.errors or this.warnings: message is the text before the
\* line list of the messages that have one, lines the list's first five
\* numbers and more whether '...' follows them.
Message(message, lines, line) ==
    [message |-> message,
     lines |-> IF Len(lines) > 5 THEN SubSeq(lines, 1, 5) ELSE lines,
     more |-> Len(lines) > 5,
     line |-> line]

\* getValidationResult for the entries a call pushed.
Report(errors, warnings) ==
    [valid |-> Len(errors) = 0, errors |-> errors, warnings |-> warnings]

\* (line.match(new RegExp(delimiter, 'g')) || []).length: the pattern '|'
\* is an empty alternation, which matches at every position of the line.
RECURSIVE RegExpMatchCount(_, _)
RegExpMatchCount(line, delimiter) ==
    IF delimiter = "|" THEN Len(line) + 1
    ELSE IF line = <<>> THEN 0
    ELSE (IF Head(line) = delimiter THEN 1 ELSE 0) + RegExpMatchCount(Tail(line), delimiter)

\* The sum of the counts: avg > 0 exactly when it is positive.
RECURSIVE SumOf(_)
SumOf(counts) == IF counts = <<>> THEN 0 ELSE Head(counts) + SumOf(Tail(counts))

\* Validator.detectDelimiter, the loop over the candidates from d on;
\* maxSame is maxConsistency times the number of lines.
RECURSIVE ValidatorDetectLoop(_, _, _, _)
ValidatorDetectLoop(lines, d, bestDelimiter, maxSame) ==
    IF d > Len(delimiters) THEN bestDelimiter
    ELSE IF /\ Len(SelectSeq([i \in 1..Len(lines) |-> RegExpMatchCount(lines[i], delimiters[d])],
                             LAMBDA c : c = RegExpMatchCount(lines[1], delimiters[d]))) > maxSame
            /\ SumOf([i \in 1..Len(lines) |-> RegExpMatchCount(lines[i], delimiters[d])]) > 0
    THEN ValidatorDetectLoop(lines, d + 1, Str(<<delimiters[d]>>),
             Len(SelectSeq([i \in 1..Len(lines) |-> RegExpMatchCount(lines[i], delimiters[d])],
                           LAMBDA c : c = RegExpMatchCount(lines[1], delimiters[d]))))
    ELSE ValidatorDetectLoop(lines, d + 1, bestDelimiter, maxSame)

\* Validator.detectDelimiter(content).
validatorDetectDelimiter(content) ==
    IF Len(NonBlankLines(content)) = 0 THEN Null
    ELSE ValidatorDetectLoop(IF Len(NonBlankLines(content)) > SampleLines
                             THEN SubSeq(NonBlankLines(content), 1, SampleLines)
                             ELSE NonBlankLines(content),
                             1, Null, 0)

\* Validator.parseCSVLine(line, delimiter) from position i (1-based) on.
RECURSIVE ParseCSVLineFrom(_, _, _, _, _, _)
ParseCSVLineFrom(line, i, delimiter, current, inQuotes, result) ==
    IF i > Len(line) THEN Append(result, current)
    ELSE IF line[i] = QUOTE /\ inQuotes /\ i < Len(line) /\ line[i + 1] = QUOTE
    THEN ParseCSVLineFrom(line, i + 2, delimiter, Append(current, QUOTE), inQuotes, result)
    ELSE IF line[i] = QUOTE
    THEN ParseCSVLineFrom(line, i + 1, delimiter, current, ~inQuotes, result)
    ELSE IF line[i] = delimiter /\ ~inQuotes
    THEN ParseCSVLineFrom(line, i + 1, delimiter, <<>>, inQuotes, Append(result, current))
    ELSE ParseCSVLineFrom(line, i + 1, delimiter, Append(current, line[i]), inQuotes, result)

parseCSVLine(line, delimiter) == ParseCSVLineFrom(line, 1, delimiter, <<>>, FALSE, <<>>)

\* checkMalformedQuotes, the loop over the characters of a line: quoteCount
\* after the characters from position i on.
RECURSIVE QuoteCount(_, _, _, _)
QuoteCount(line, i, quoteCount, escaped) ==
    IF i > Len(line) THEN quoteCount
    ELSE IF line[i] = QUOTE /\ ~escaped THEN QuoteCount(line, i + 1, quoteCount + 1, escaped)
    ELSE IF line[i] = BACKSLASH THEN QuoteCount(line, i + 1, quoteCount, ~escaped)
    ELSE QuoteCount(line, i + 1, quoteCount, FALSE)

\* Validator.checkMalformedQuotes(lines): the numbers of the lines flagged.
checkMalformedQuotes(lines) ==
    SelectSeq([idx \in 1..Len(lines) |-> idx],
              LAMBDA idx : QuoteCount(lines[idx], 1, 0, FALSE) % 2 # 0)

\* validateCSV: the lines whose column count is not that of the first line.
InconsistentLines(lines, delimiter) ==
    SelectSeq([i \in 1..Len(lines) |-> i],
              LAMBDA i : i > 1 /\ Len(parseCSVLine(lines[i], delimiter))
                                   # Len(parseCSVLine(lines[1], delimiter)))

\* validateCSV: the lines that are empty once trimmed and rid of the
\* matches of new RegExp(delimiter, 'g'), which for '|' are all empty.
EmptyRows(lines, delimiter) ==
    SelectSeq([i \in 1..Len(lines) |-> i],
              LAMBDA i : SelectSeq(trim(lines[i]),
                                   LAMBDA c : delimiter = "|" \/ c # delimiter) = <<>>)

\* validateCSV from the column checks on: the entries pushed.
ValidateLines(lines, delimiter) ==
    Report(IF Len(checkMalformedQuotes(lines)) > 0
           THEN <<Message("Malformed quotes detected on lines", checkMalformedQuotes(lines),
                          checkMalformedQuotes(lines)[1])>>
           ELSE <<>>,
           (IF Len(InconsistentLines(lines, delimiter)) > 0
            THEN <<Message("Inconsistent column count on lines",
                           InconsistentLines(lines, delimiter),
                           InconsistentLines(lines, delimiter)[1])>>
            ELSE <<>>)
           \o (IF Len(EmptyRows(lines, delimiter)) > 0
               THEN <<Message("Empty rows detected on lines", EmptyRows(lines, delimiter),
                              EmptyRows(lines, delimiter)[1])>>
               ELSE <<>>))

\* Validator.validateCSV(content): the entries it pushes to the arrays it
\* has just assigned to this.errors and this.warnings.
validateCSV(content) ==
    IF content = <<>> \/ IsBlank(content)
    THEN Report(<<Message("CSV content is empty", <<>>, 0)>>, <<>>)
    ELSE IF Len(NonBlankLines(content)) = 0
    THEN Report(<<Message("CSV has no data rows", <<>>, 0)>>, <<>>)
    ELSE IF ~Truthy(validatorDetectDelimiter(content))
    THEN Report(<<Message("Unable to detect CSV delimiter", <<>>, 0)>>, <<>>)
    ELSE IF Len(parseCSVLine(NonBlankLines(content)[1],
                             validatorDetectDelimiter(content).s[1])) = 0
    THEN Report(<<Message("CSV header is empty or invalid", <<>>, 1)>>, <<>>)
    ELSE ValidateLines(NonBlankLines(content), validatorDetectDelimiter(content).s[1])

\* Validator.checkPropertyConsistency(arr) for an array that is not empty.
checkPropertyConsistency(arr) ==
    SelectSeq(extractAllKeys(arr),
              LAMBDA prop :
                  /\ \E i \in 1..Len(arr) : IsObject(arr[i]) /\ HasKey(OwnProps(arr[i]), prop)
                  /\ \E i \in 1..Len(arr) : ~(IsObject(arr[i]) /\ HasKey(OwnProps(arr[i]), prop)))

\* validateJSON: the warnings for a parsed value.
ParsedWarnings(parsed) ==
    (IF ~IsObject(parsed)
     THEN <<Message("JSON should be an object or array for optimal conversion", <<>>, 0)>>
     ELSE <<>>)
    \o (IF parsed.t = "arr" /\ Len(parsed.a) = 0
        THEN <<Message("JSON array is empty", <<>>, 0)>>
        ELSE <<>>)
    \o (IF parsed.t = "arr" /\ Len(parsed.a) > 0 /\ \A i \in 1..Len(parsed.a) : ~IsObject(parsed.a[i])
        THEN <<Message("JSON array should contain objects for optimal CSV conversion", <<>>, 0)>>
        ELSE <<>>)
    \o (IF parsed.t = "arr" /\ Len(parsed.a) > 0 /\ Len(checkPropertyConsistency(parsed.a)) > 0
        THEN <<[message |-> "Inconsistent properties detected",
                lines |-> checkPropertyConsistency(parsed.a), more |-> FALSE, line |-> 0]>>
        ELSE <<>>)
    \o (IF parsed.t = "obj" /\ Len(parsed.o) = 0
        THEN <<Message("JSON object is empty", <<>>, 0)>>
        ELSE <<>>)

\* Validator.validateJSON(content): the entries it pushes.  The message of
\* the host's SyntaxError is taken to name no position.
validateJSON(content) ==
    IF content.text \in {"empty", "blank"}
    THEN Report(<<Message("JSON content is empty", <<>>, 0)>>, <<>>)
    ELSE IF content.text = "invalid"
    THEN Report(<<Message("JSON syntax error", <<>>, 0)>>, <<>>)
    ELSE Report(IF hasCircularReference(content.value)
                THEN <<Message("JSON contains circular references", <<>>, 0)>>
                ELSE <<>>,
                ParsedWarnings(content.value))

\* ------------------------------------------------------------------------
\* The engines and their inputs
\* ------------------------------------------------------------------------
\* The options a CSVToJSONConverter has after new CSVToJSONConverter().
CsvDefaults ==
    [delimiter |-> Null, hasHeaders |-> TRUE, trimValues |-> TRUE,
     parseNumbers |-> TRUE, parseBooleans |-> TRUE, parseNulls |-> TRUE,
     outputFormat |-> "array", customHeaders |-> Null, headerMapping |-> Null,
     skipEmptyLines |-> TRUE, columnTypes |-> Obj(<<>>), nestedOutput |-> FALSE]

\* The options a JSONToCSVConverter has after new JSONToCSVConverter().
JsonDefaults ==
    [delimiter |-> <<",">>, lineEnding |-> <<LF>>, includeHeaders |-> TRUE,
     quoteChar |-> <<QUOTE>>, flattenObjects |-> TRUE, nestingSeparator |-> <<".">>,
     maxNestingDepth |-> 3, handleNestedArrays |-> TRUE, customHeaders |-> Null]

\* Constructor arguments: the four coercion switches in every combination.
CoercionConfigs ==
    {[CsvDefaults EXCEPT !.trimValues = t, !.parseNulls = n,
                         !.parseBooleans = b, !.parseNumbers = m] :
        t \in BOOLEAN, n \in BOOLEAN, b \in BOOLEAN, m \in BOOLEAN}

\* Constructor arguments that depart from the defaults in one option.
CsvConfigs ==
    {CsvDefaults,
     [CsvDefaults EXCEPT !.delimiter = Str(<<",">>)],
     [CsvDefaults EXCEPT !.delimiter = Str(<<";">>)],
     [CsvDefaults EXCEPT !.hasHeaders = FALSE],
     [CsvDefaults EXCEPT !.skipEmptyLines = FALSE],
     [CsvDefaults EXCEPT !.outputFormat = "object"],
     [CsvDefaults EXCEPT !.nestedOutput = TRUE],
     [CsvDefaults EXCEPT !.customHeaders = Arr(<<Str(<<"x">>), Str(<<"y">>)>>)],
     [CsvDefaults EXCEPT !.delimiter = Str(<<",">>), !.hasHeaders = FALSE]}

JsonConfigs ==
    {JsonDefaults,
     [JsonDefaults EXCEPT !.delimiter = <<";">>],
     [JsonDefaults EXCEPT !.quoteChar = <<"'">>],
     [JsonDefaults EXCEPT !.quoteChar = <<".">>],
     [JsonDefaults EXCEPT !.flattenObjects = FALSE],
     [JsonDefaults EXCEPT !.includeHeaders = FALSE]}

\* Bounds of the inputs.
MaxLineLen == 4
MaxFieldLen == 3
MaxValueLen == 3
MaxRowLen == 3
MaxRows == 2
MaxRecords == 2

\* Lines handed to parseLine.
LineAlphabet == {",", QUOTE, BACKSLASH, SPACE, "a"}
Lines ==
    StringsUpTo(LineAlphabet, MaxLineLen)
    \cup {<<"1", ",", QUOTE, "a", ",", SPACE, "b", QUOTE>>,
          <<"a", ";", QUOTE, ";", QUOTE, ";", "1">>}
LineDelimiters == {Str(<<",">>), Str(<<";">>)}

\* Raw field texts handed to processField.
FieldAlphabet == {SPACE, "1", "-", ".", "a"}
Fields ==
    StringsUpTo(FieldAlphabet, MaxFieldLen)
    \cup {NullWord, <<"N", "U", "L", "L">>, <<"N", "u", "l", "l">>,
          TrueWord, <<"T", "R", "U", "E">>, FalseWord, <<"F", "a", "l", "s", "e">>,
          InfinityWord, <<"-">> \o InfinityWord, <<"N", "a", "N">>,
          <<"1", "e", "3">>, <<"1", "e">>, <<SPACE, "t", "r", "u", "e">>,
          <<"t", "r", "u", "e", "1">>, <<"0", "1", "0">>, <<TAB>>, <<LF>>}

\* Strings handed to escapeValue.
ValueAlphabet == {",", QUOTE, LF, SPACE, BACKSLASH, "a"}
Values ==
    StringsUpTo(ValueAlphabet, MaxValueLen)
    \cup {<<"a", ";", "b">>, <<"a", ".", "b">>, <<"a", "'", "b">>, <<"a", CR>>,
          <<"1", ",">>, <<"a", ".", LF>>}

\* Texts handed to detectDelimiter, convert and convertLarge: up to MaxRows
\* lines of up to MaxRowLen characters, joined by LF, and a few longer ones.
RowAlphabet == {"a", ",", QUOTE}
RowLines == StringsUpTo(RowAlphabet, MaxRowLen)

RECURSIVE TextsOfRows(_)
TextsOfRows(n) ==
    IF n = 1 THEN RowLines
    ELSE LET fewer == TextsOfRows(n - 1)
         IN  fewer \cup {t \o <<LF>> \o l : t \in fewer, l \in RowLines}

Line3(a, b, c) == <<a, b, c>>

Texts ==
    TextsOfRows(MaxRows)
    \cup {<<SPACE>>, <<LF>>, <<BOM, "a", ",", "b", LF, "1", ",", "2">>,
          Line3("a", ";", "b") \o <<LF>> \o Line3("1", ";", "2"),
          Line3("a", ",", "b") \o <<CR, LF>> \o Line3("1", ",", "2") \o <<LF>> \o Line3("3", ",", "4"),
          Line3("a", ";", ",") \o <<LF>> \o Line3("1", ";", "2") \o <<LF>> \o Line3(",", ";", ","),
          Line3("a", TAB, "|") \o <<LF>> \o Line3("b", "|", TAB),
          Line3("a", ",", SPACE) \o <<LF>> \o Line3("1", ",", "2"),
          Line3("a", ",", "1") \o <<LF>> \o Line3("x", ",", "y"),
          <<"a", ".", "b", ",", "1", LF, "x", ",", "y">>,
          Concat([i \in 1..7 |-> (IF i = 1 THEN <<>> ELSE <<LF>>)
                                  \o (IF i <= 5 THEN Line3("a", ";", ",") ELSE Line3(",", ",", ","))])}

\* Texts handed to detectDelimiter: up to MaxDetectLines lines, each one of
\* a few shapes that differ in their counts of the candidates.
MaxDetectLines == 6
DetectShapes ==
    {<<>>, <<"a">>, <<"a", ",", "b">>, <<"a", ";", "b", ",", "c">>,
     <<QUOTE, ",", QUOTE, ";", "|">>}

RECURSIVE DetectTextsOf(_)
DetectTextsOf(n) ==
    IF n = 1 THEN DetectShapes
    ELSE LET fewer == DetectTextsOf(n - 1)
         IN  fewer \cup {t \o <<LF>> \o l : t \in fewer, l \in DetectShapes}

DetectTexts ==
    DetectTextsOf(MaxDetectLines)
    \cup {<<"a", ",", "b", ",", "c", LF, "1", ",", "2", ",", "3", LF, "4", ",", "5", ",", "6">>,
          <<"a", ";", "b", ";", "c", LF, "1", ";", "2", ";", "3">>,
          <<"a", TAB, "b", LF, "1", TAB, "2">>,
          <<"a", "|", "b", TAB, "c", LF, "1", "|", "2">>}

\* Object graphs handed to hasCircularReference: MaxObjects objects with up
\* to MaxProperties properties each.
MaxObjects == 3
MaxProperties == 2
PropertyLists ==
    UNION {[1..n -> 0..MaxObjects] : n \in 0..MaxProperties}
Heaps == [1..MaxObjects -> PropertyLists]

\* Nested records handed to convertArrayOfObjects: values nested up to
\* MaxDepth objects deep, with a key that contains the nesting separator.
MaxDepth == 3
Leaves == {Null, Fin(1, 0), Str(<<"a">>), Arr(<<>>), Arr(<<Fin(1, 0)>>)}

ObjectsOver(values) ==
    {Obj(<<>>)}
    \cup {Obj(<<[k |-> <<"a">>, v |-> x]>>) : x \in values}
    \cup {Obj(<<[k |-> <<"a">>, v |-> x], [k |-> <<"b">>, v |-> Fin(1, 0)]>>) : x \in values}
    \cup {Obj(<<[k |-> <<"a", ".", "b">>, v |-> x]>>) : x \in values}

RECURSIVE NestedValues(_)
NestedValues(d) ==
    IF d = 0 THEN Leaves
    ELSE NestedValues(d - 1) \cup ObjectsOver(NestedValues(d - 1))

NestedRecords == ObjectsOver(NestedValues(MaxDepth))

NestedArrays ==
    {<<r>> : r \in NestedRecords}
    \cup {<<r, s>> : r \in NestedRecords,
                     s \in {Obj(<<[k |-> <<"b">>, v |-> Str(<<"a">>)]>>), Fin(1, 0)}}

FlattenConfigs ==
    {JsonDefaults,
     [JsonDefaults EXCEPT !.maxNestingDepth = 1],
     [JsonDefaults EXCEPT !.maxNestingDepth = 2],
     [JsonDefaults EXCEPT !.customHeaders = Arr(<<Str(<<"b">>), Str(<<"a">>)>>)]}

\* Parsed JSON handed to JSONToCSVConverter.convert.
ScalarValues ==
    {Null, Bool(TRUE), Fin(1, 0), Str(<<"a">>), Str(<<"a", LF, "b">>)}

Records ==
    {Obj(<<>>)}
    \cup {Obj(<<[k |-> <<"a">>, v |-> x]>>) : x \in ScalarValues}
    \cup {Obj(<<[k |-> <<"a">>, v |-> x], [k |-> <<"b">>, v |-> y]>>) :
            x \in ScalarValues, y \in ScalarValues}

RECURSIVE ArraysOf(_, _)
ArraysOf(elems, n) ==
    IF n = 0 THEN {<<>>}
    ELSE LET fewer == ArraysOf(elems, n - 1)
         IN  fewer \cup {Append(a, x) : a \in fewer, x \in elems}

JsonTexts ==
    {JsonText("empty", Undef), JsonText("blank", Undef), JsonText("invalid", Undef)}
    \cup {JsonText("json", x) : x \in ScalarValues}
    \cup {JsonText("json", x) : x \in Records}
    \cup {JsonText("json", Arr(a)) : a \in ArraysOf(Records, MaxRecords)}
    \cup {JsonText("json", Arr(a)) : a \in ArraysOf({Fin(1, 0), Str(<<"a">>)}, MaxRecords)}

\* ------------------------------------------------------------------------
\* State
\* ------------------------------------------------------------------------
VARIABLES
    csvOptions,   \* this.options of the CSVToJSONConverter
    jsonOptions,  \* this.options of the JSONToCSVConverter
    call,         \* the call in progress or just returned: its name and arguments
    ret,          \* what that call returned
    run,          \* the chunked conversion in progress: its loop and its callback
    validator,    \* the Validator: this.errors, this.warnings, the arrays and the reports returned
    objects,      \* the objects of the host: Object.prototype, the record being built, the records built
    app,          \* the ParseKIT controller: its fields, the input elements and the settings of the page
    fileHandler   \* the FileHandler: its fields, the reads in progress, the last event it dispatched

vars == <<csvOptions, jsonOptions, call, ret, run, validator, objects, app, fileHandler>>

NoJson == JsonText("none", Undef)

Call(op, arg, delimiter, json) ==
    [op |-> op, arg |-> arg, delimiter |-> delimiter, json |-> json]

Idle == Call("idle", <<>>, Undef, NoJson)

\* text: a returned string.  raw: the field texts the tokenizer closed.
\* fields: the returned fields.  value: a returned value.  result: a
\* conversion's result object.
Ret(text, raw, fields, value, result) ==
    [text |-> text, raw |-> raw, fields |-> fields, value |-> value, result |-> result]

NoResult == Failure("")
NoRet == Ret(<<>>, <<>>, <<>>, Undef, NoResult)

\* A chunked conversion: op the method, options this.options when it was
\* called, items the array or the data rows, keys allKeys or headers, i the
\* loop variable, result the pieces appended to result so far, calls the
\* invocations of the progress callback so far, pc where the method is.
Run(pc, op, options, items, size, callback, keys, i, result, calls) ==
    [pc |-> pc, op |-> op, options |-> options, items |-> items, chunkSize |-> size,
     callback |-> callback, keys |-> keys, i |-> i, result |-> result, calls |-> calls]

NoCallback == [given |-> FALSE, updates |-> <<>>]
NoRun == Run("none", "", <<>>, <<>>, 0, NoCallback, <<>>, 0, <<>>, <<>>)

\* A Validator and the reports its callers hold.  heap: the arrays created
\* so far, an array's identity being its index; errors, warnings: the
\* arrays this.errors and this.warnings refer to; reports: for every call
\* made, its method, its content and the object it returned, whose errors
\* and warnings are references to arrays.
NewValidator ==
    [errors |-> 1, warnings |-> 2, heap |-> <<<<>>, <<>>>>, reports |-> <<>>]

\* Bound of the calls made on one Validator.
MaxCalls == 2

\* Contents handed to validateCSV and validateJSON of a Validator that is
\* used again and again.
ValidatorContents ==
    {<<>>, <<SPACE>>, <<"a">>, <<"a", QUOTE>>, <<"a", BACKSLASH, QUOTE>>,
     <<QUOTE, "a", QUOTE, LF, QUOTE>>,
     Line3("a", ",", "b") \o <<LF>> \o Line3("1", ",", "2"),
     Line3("a", ",", "b") \o <<LF, "1">>,
     Line3("a", ",", "b") \o <<LF, ",">>,
     Line3("a", ";", "b") \o <<LF, QUOTE, LF, "1", LF, QUOTE, "x">>,
     Line3("a", "|", "b") \o <<LF, "|">>}
ValidatorJsonContents ==
    {JsonText("empty", Undef), JsonText("invalid", Undef),
     JsonText("json", Fin(1, 0)), JsonText("json", Arr(<<>>)), JsonText("json", Obj(<<>>)),
     JsonText("json", Arr(<<Fin(1, 0)>>)),
     JsonText("json", Arr(<<Obj(<<[k |-> <<"a">>, v |-> Fin(1, 0)]>>),
                            Obj(<<[k |-> <<"b">>, v |-> Fin(1, 0)]>>)>>)),
     JsonText("json", Obj(<<[k |-> <<"a">>, v |-> Fin(1, 0)]>>))}

\* Contents handed to validateCSV of a new Validator: a line, or lines
\* joined by LF.
QuoteContents ==
    Lines \cup {t \o <<LF>> \o l : t \in StringsUpTo({QUOTE, BACKSLASH, "a"}, 2),
                                   l \in StringsUpTo({QUOTE, BACKSLASH, "a"}, 2)}

\* The objects of the host that setNestedValue can reach.  heap: the
\* objects, an object's identity being its index, each with its own
\* properties in enumeration order and its prototype (1 for
\* Object.prototype, 0 for none); object 1 is Object.prototype, of which
\* props holds the properties written since the start.  obj: the record
\* rowsToJSON is building (0: none), i its loop variable.  records: the
\* records it has pushed.
Ref(id) == Mk("ref", FALSE, "", id, 0, <<>>, <<>>, <<>>)
Function == Mk("function", FALSE, "", 0, 0, <<>>, <<>>, <<>>)
ObjectLiteral == [props |-> <<>>, proto |-> 1]
NoObjects ==
    [heap |-> <<[props |-> <<>>, proto |-> 0]>>, obj |-> 0, i |-> 0, records |-> <<>>]

\* Bounds of the objects, of the segments of a path and of the columns of
\* a record.
MaxHeapObjects == 3
MaxSegments == 2
MaxColumns == 2

\* Paths and values handed to setNestedValue.
ProtoKey == <<"_", "_", "p", "r", "o", "t", "o", "_", "_">>
ConstructorKey == <<"c", "o", "n", "s", "t", "r", "u", "c", "t", "o", "r">>
PrototypeKey == <<"p", "r", "o", "t", "o", "t", "y", "p", "e">>
Segments == {<<"a">>, ProtoKey, ConstructorKey, PrototypeKey}

RECURSIVE PathsOf(_)
PathsOf(n) ==
    IF n = 1 THEN Segments
    ELSE PathsOf(n - 1) \cup {p \o <<".">> \o s : p \in PathsOf(n - 1), s \in Segments}

Paths == PathsOf(MaxSegments)
PathValues == {Fin(1, 0), Null}

\* A content of the page: a string, given by its characters (csv) and by
\* what JSON.parse makes of it (json).  NoContent is the empty string; null,
\* which the controller tests the same way, is not told apart from it.
NoContent == [csv |-> <<>>, json |-> JsonText("empty", Undef)]
AppContents ==
    {[csv |-> <<"[", "{", QUOTE, "a", QUOTE, ":", "1", "}", "]">>,
      json |-> JsonText("json", Arr(<<Obj(<<[k |-> <<"a">>, v |-> Fin(1, 0)]>>)>>))],
     [csv |-> Line3("a", ",", "b") \o <<LF>> \o Line3("1", ",", "2"),
      json |-> JsonText("invalid", Undef)]}

\* Files handed to handleFile: name, type and size pass validateFile, the
\* read yields content.  The content of the last one has a malformed quote.
Files ==
    {[name |-> "a.json", content |-> c] : c \in {x \in AppContents : x.json.text = "json"}}
    \cup {[name |-> "b.csv", content |-> c] : c \in {x \in AppContents : x.json.text # "json"}}
    \cup {[name |-> "b.csv",
           content |-> [csv |-> <<"a", QUOTE>>, json |-> JsonText("invalid", Undef)]]}
NoFile == [name |-> "", content |-> NoContent]

\* Bound of the calls of handleFile.
MaxHandled == 2

\* The FileHandler after its constructor.  reads: the reads started and
\* not completed, each with the number of the call that started it;
\* handled: the calls of handleFile so far; last: the user's last action;
\* lastEvent: the last event dispatched; errors, warnings: the arrays of
\* its Validator.
NewFileHandler ==
    [currentFile |-> NoFile, currentFileType |-> "null", reads |-> {}, handled |-> 0,
     last |-> [op |-> "none", file |-> NoFile],
     lastEvent |-> [type |-> "none", content |-> NoContent, fileType |-> "null"],
     errors |-> <<>>, warnings |-> <<>>]

\* The settings of the page that updateConverters reads.
AppSettings ==
    {[delimiter |-> <<",">>, includeHeaders |-> TRUE],
     [delimiter |-> <<";">>, includeHeaders |-> TRUE],
     [delimiter |-> <<",">>, includeHeaders |-> FALSE]}

\* The ParseKIT controller after its constructor, with the elements of the
\* page it reads and writes: textarea is the value of #inputTextarea, file
\* the content of the file the upload area shows, convertDisabled the
\* disabled flag of #convertBtn.
NewParseKIT ==
    [currentMode |-> "json-to-csv", currentInputContent |-> NoContent,
     currentOutput |-> NoResult, textarea |-> NoContent, file |-> NoContent,
     convertDisabled |-> TRUE,
     settings |-> [delimiter |-> <<",">>, includeHeaders |-> TRUE]]

\* Arrays handed to convertInChunks: up to MaxItems items, with chunk sizes
\* up to MaxChunkSize; texts handed to convertLarge with a callback.
MaxItems == 3
MaxChunkSize == 3
ChunkItems ==
    {Obj(<<[k |-> <<"a">>, v |-> Fin(1, 0)]>>),
     Obj(<<[k |-> <<"a">>, v |-> Str(<<"a">>)],
           [k |-> <<"b">>, v |-> Obj(<<[k |-> <<"a">>, v |-> Fin(1, 0)]>>)]>>),
     Fin(1, 0)}
ChunkArrays == ArraysOf(ChunkItems, MaxItems)

LargeTexts ==
    {<<>>, <<"a">>, <<"a", LF, "1">>, <<"a", ",", "b", LF, "1", ",", "2", LF, "3", ",", "4">>,
     <<"a", ".", "b", LF, "1", LF, "2", LF, "3">>}

\* The progress callback: none, one that only looks at its arguments, or
\* one that calls updateOptions on the engine.
JsonUpdates ==
    {[delimiter |-> <<";">>], [lineEnding |-> <<CR, LF>>], [flattenObjects |-> FALSE]}
CsvUpdates ==
    {[outputFormat |-> "object"]}
CallbacksOf(updates) ==
    {NoCallback, [given |-> TRUE, updates |-> <<>>]}
    \cup {[given |-> TRUE, updates |-> <<u>>] : u \in updates}

\* ------------------------------------------------------------------------
\* Operations
\* ------------------------------------------------------------------------
\* The caller takes the returned value; the engine is ready for the next call.
Done ==
    /\ call.op # "idle"
    /\ run.pc \in {"none", "returned"}
    /\ call' = Idle
    /\ ret' = NoRet
    /\ run' = NoRun
    /\ UNCHANGED <<csvOptions, jsonOptions, validator, objects, app, fileHandler>>

ParseLine ==
    /\ call.op = "idle"
    /\ \E line \in Lines, delimiter \in LineDelimiters :
          /\ call' = Call("parseLine", line, delimiter, NoJson)
          /\ ret' = Ret(<<>>, ScanLine(line, delimiter, TRUE, 1, FALSE, <<>>, <<>>).fields,
                        parseLine(csvOptions, line, delimiter), Undef, NoResult)
    /\ UNCHANGED <<csvOptions, jsonOptions, run, validator, objects, app, fileHandler>>

ParseLineBase ==
    /\ call.op = "idle"
    /\ \E line \in Lines, delimiter \in LineDelimiters :
          /\ call' = Call("parseLineBase", line, delimiter, NoJson)
          /\ ret' = Ret(<<>>, ScanLine(line, delimiter, FALSE, 1, FALSE, <<>>, <<>>).fields,
                        parseLineBase(csvOptions, line, delimiter), Undef, NoResult)
    /\ UNCHANGED <<csvOptions, jsonOptions, run, validator, objects, app, fileHandler>>

ProcessField ==
    /\ call.op = "idle"
    /\ \E field \in Fields :
          /\ call' = Call("processField", field, Undef, NoJson)
          /\ ret' = Ret(<<>>, <<>>, <<>>, processField(csvOptions, field), NoResult)
    /\ UNCHANGED <<csvOptions, jsonOptions, run, validator, objects, app, fileHandler>>

EscapeValue ==
    /\ call.op = "idle"
    /\ \E value \in Values :
          /\ call' = Call("escapeValue", value, Undef, NoJson)
          /\ ret' = Ret(escapeValue(jsonOptions, value), <<>>, <<>>, Undef, NoResult)
    /\ UNCHANGED <<csvOptions, jsonOptions, run, validator, objects, app, fileHandler>>

\* The text escapeValue returned is tokenized by parseLine with the
\* delimiter of the engine that wrote it; call.arg stays the original string.
ParseEscaped ==
    /\ call.op = "escapeValue"
    /\ call' = [call EXCEPT !.op = "parseEscaped", !.delimiter = Str(jsonOptions.delimiter)]
    /\ ret' = Ret(ret.text,
                  ScanLine(ret.text, Str(jsonOptions.delimiter), TRUE, 1, FALSE, <<>>, <<>>).fields,
                  parseLine(csvOptions, ret.text, Str(jsonOptions.delimiter)), Undef, NoResult)
    /\ UNCHANGED <<csvOptions, jsonOptions, run, validator, objects, app, fileHandler>>

DetectDelimiter ==
    /\ call.op = "idle"
    /\ \E text \in DetectTexts :
          /\ call' = Call("detectDelimiter", text, Undef, NoJson)
          /\ ret' = Ret(<<>>, <<>>, <<>>, detectDelimiter(text), NoResult)
    /\ UNCHANGED <<csvOptions, jsonOptions, run, validator, objects, app, fileHandler>>

Convert ==
    /\ call.op = "idle"
    /\ \E text \in Texts :
          /\ call' = Call("convert", text, Undef, NoJson)
          /\ ret' = Ret(<<>>, <<>>, <<>>, Undef, convert(csvOptions, text))
    /\ UNCHANGED <<csvOptions, jsonOptions, run, validator, objects, app, fileHandler>>

ConvertLarge ==
    /\ call.op = "idle"
    /\ \E text \in Texts :
          /\ call' = Call("convertLarge", text, Undef, NoJson)
          /\ ret' = Ret(<<>>, <<>>, <<>>, Undef, convertLarge(csvOptions, text))
    /\ UNCHANGED <<csvOptions, jsonOptions, run, validator, objects, app, fileHandler>>

JsonConvert ==
    /\ call.op = "idle"
    /\ \E json \in JsonTexts :
          /\ call' = Call("jsonConvert", <<>>, Undef, json)
          /\ ret' = Ret(<<>>, <<>>, <<>>, Undef, jsonConvert(jsonOptions, json))
    /\ UNCHANGED <<csvOptions, jsonOptions, run, validator, objects, app, fileHandler>>

HasCircularReference ==
    /\ call.op = "idle"
    /\ \E heap \in Heaps, obj \in 1..MaxObjects :
          /\ call' = Call("hasCircularReference", heap, Fin(obj, 0), NoJson)
          /\ ret' = Ret(<<>>, <<>>, <<>>, Bool(hasCircularReferenceIn(heap, obj)), NoResult)
    /\ UNCHANGED <<csvOptions, jsonOptions, run, validator, objects, app, fileHandler>>

\* convertArrayOfObjects(array): fields is allKeys and value the cells of
\* the items' rows, as the call computes them on the way to its text.
StrCells(cells) == Arr([i \in 1..Len(cells) |-> Str(cells[i])])

ArrayOfObjectsCells(opt, array, allKeys) ==
    Arr([r \in 1..Len(array) |->
           IF IsObject(array[r]) THEN StrCells(ItemCells(opt, array[r], allKeys))
           ELSE Str(formatValue(opt, array[r]))])

ArrayOfObjectsKeys(opt, array) ==
    IF opt.flattenObjects THEN extractFlattenedKeys(opt, array) ELSE extractAllKeys(array)

ConvertArrayOfObjects ==
    /\ call.op = "idle"
    /\ \E array \in NestedArrays :
          /\ call' = Call("convertArrayOfObjects", array, Null, NoJson)
          /\ ret' = Ret(convertArrayOfObjects(jsonOptions, array), <<>>,
                        ArrayOfObjectsKeys(jsonOptions, array),
                        ArrayOfObjectsCells(jsonOptions, array,
                                            ArrayOfObjectsKeys(jsonOptions, array)),
                        NoResult)
    /\ UNCHANGED <<csvOptions, jsonOptions, run, validator, objects, app, fileHandler>>

\* The CSV text convertArrayOfObjects returned is handed to
\* CSVToJSONConverter.convert; call.arg stays the original array.
ConvertFlattened ==
    /\ call.op = "convertArrayOfObjects"
    /\ call' = [call EXCEPT !.op = "convertFlattened"]
    /\ ret' = Ret(ret.text, <<>>, ret.fields, Undef, convert(csvOptions, ret.text))
    /\ UNCHANGED <<csvOptions, jsonOptions, run, validator, objects, app, fileHandler>>

\* convertInChunks(array, chunkSize, callback) up to its loop.
ConvertInChunksStart ==
    /\ call.op = "idle"
    /\ \E array \in ChunkArrays, size \in 1..MaxChunkSize, callback \in CallbacksOf(JsonUpdates) :
          /\ call' = Call("convertInChunks", array, Fin(size, 0), NoJson)
          /\ run' = Run("loop", "convertInChunks", jsonOptions, array, size, callback,
                        ArrayOfObjectsKeys(jsonOptions, array), 0,
                        ChunksHeader(jsonOptions, ArrayOfObjectsKeys(jsonOptions, array)), <<>>)
    /\ ret' = NoRet
    /\ UNCHANGED <<csvOptions, jsonOptions, validator, objects, app, fileHandler>>

\* One pass of the loop of convertInChunks up to the callback: the rows of
\* the chunk are appended, formatted with this.options as they are now.
ConvertInChunksChunk ==
    /\ run.pc = "loop"
    /\ run.op = "convertInChunks"
    /\ run.i < Len(run.items)
    /\ run' = [run EXCEPT
                 !.result = @ \o ChunkPieces(jsonOptions,
                                             SubSeq(run.items, run.i + 1,
                                                    ChunkEnd(run.i, run.chunkSize, Len(run.items))),
                                             run.keys),
                 !.pc = IF run.callback.given THEN "callback" ELSE "loop",
                 !.i = IF run.callback.given THEN @ ELSE @ + run.chunkSize]
    /\ UNCHANGED <<csvOptions, jsonOptions, call, ret, validator, objects, app, fileHandler>>

\* convertInChunks returns result.
ConvertInChunksReturn ==
    /\ run.pc = "loop"
    /\ run.op = "convertInChunks"
    /\ run.i >= Len(run.items)
    /\ ret' = Ret(Concat(run.result), <<>>, run.keys, Undef, NoResult)
    /\ run' = [run EXCEPT !.pc = "returned"]
    /\ UNCHANGED <<csvOptions, jsonOptions, call, validator, objects, app, fileHandler>>

\* convertLarge(csvString, progressCallback) up to its loop; reading
\* allRows[0].length throws when there is no row and hasHeaders is off.
ConvertLargeStart ==
    /\ call.op = "idle"
    /\ \E text \in LargeTexts, callback \in CallbacksOf(CsvUpdates) :
          /\ call' = Call("convertLarge", text, Undef, NoJson)
          /\ IF ~csvOptions.hasHeaders
                /\ Len(parseCSV(csvOptions, text,
                                IF Truthy(csvOptions.delimiter) THEN csvOptions.delimiter
                                ELSE detectDelimiter(text))) = 0
             THEN /\ run' = Run("returned", "convertLarge", csvOptions, <<>>, chunkSize, callback,
                                <<>>, 0, <<>>, <<>>)
                  /\ ret' = Ret(<<>>, <<>>, <<>>, Undef,
                                Escaped("Cannot read properties of undefined (reading 'length')"))
             ELSE /\ run' = Run("loop", "convertLarge", csvOptions,
                                LargeDataRows(csvOptions,
                                    parseCSV(csvOptions, text,
                                             IF Truthy(csvOptions.delimiter) THEN csvOptions.delimiter
                                             ELSE detectDelimiter(text))),
                                chunkSize, callback,
                                LargeHeaders(csvOptions,
                                    parseCSV(csvOptions, text,
                                             IF Truthy(csvOptions.delimiter) THEN csvOptions.delimiter
                                             ELSE detectDelimiter(text))),
                                0, <<>>, <<>>)
                  /\ ret' = NoRet
    /\ UNCHANGED <<csvOptions, jsonOptions, validator, objects, app, fileHandler>>

\* The records rowsToJSON makes of the chunk at run.i with this.options as
\* they are now.
ChunkJSON ==
    rowsToJSON(csvOptions, run.keys,
               SubSeq(run.items, run.i + 1, ChunkEnd(run.i, run.chunkSize, Len(run.items))))

\* One pass of the loop of convertLarge up to the callback;
\* result.push(...chunkJSON) throws when chunkJSON is not an array.
ConvertLargeChunk ==
    /\ run.pc = "loop"
    /\ run.op = "convertLarge"
    /\ run.i < Len(run.items)
    /\ IF ChunkJSON.threw \/ ChunkJSON.value.t # "arr"
       THEN /\ run' = [run EXCEPT !.pc = "returned"]
            /\ ret' = Ret(<<>>, <<>>, <<>>, Undef,
                          Escaped(IF ChunkJSON.threw THEN ChunkJSON.error
                                  ELSE "chunkJSON is not iterable"))
       ELSE /\ run' = [run EXCEPT
                         !.result = @ \o ChunkJSON.value.a,
                         !.pc = IF run.callback.given THEN "callback" ELSE "loop",
                         !.i = IF run.callback.given THEN @ ELSE @ + run.chunkSize]
            /\ ret' = ret
    /\ UNCHANGED <<csvOptions, jsonOptions, call, validator, objects, app, fileHandler>>

\* convertLarge returns its result object.
ConvertLargeReturn ==
    /\ run.pc = "loop"
    /\ run.op = "convertLarge"
    /\ run.i >= Len(run.items)
    /\ ret' = Ret(<<>>, <<>>, <<>>, Undef,
                  Result(TRUE, "", JSONstringify(Arr(run.result)), Arr(run.result),
                         Len(run.result), -1))
    /\ run' = [run EXCEPT !.pc = "returned"]
    /\ UNCHANGED <<csvOptions, jsonOptions, call, validator, objects, app, fileHandler>>

\* The progress callback is invoked at the end of a pass of either loop; it
\* may call updateOptions on the engine that is converting.  Then i +=
\* chunkSize.
ProgressCallback ==
    /\ run.pc = "callback"
    /\ run' = [run EXCEPT
                 !.calls = Append(@, Progress(run.i, run.chunkSize, Len(run.items))),
                 !.pc = "loop",
                 !.i = @ + run.chunkSize]
    /\ jsonOptions' = IF run.op = "convertInChunks" /\ run.callback.updates # <<>>
                      THEN updateOptions(jsonOptions, run.callback.updates[1])
                      ELSE jsonOptions
    /\ csvOptions' = IF run.op = "convertLarge" /\ run.callback.updates # <<>>
                     THEN updateOptions(csvOptions, run.callback.updates[1])
                     ELSE csvOptions
    /\ UNCHANGED <<call, ret, validator, objects, app, fileHandler>>

\* The arrays of the call before stay this.errors and this.warnings.
KeepArrays(v) == v

\* this.errors = []; this.warnings = []: two new arrays.
ResetArrays(v) ==
    [v EXCEPT !.errors = Len(v.heap) + 1, !.warnings = Len(v.heap) + 2,
              !.heap = v.heap \o <<<<>>, <<>>>>]

\* this.errors.push(...) and this.warnings.push(...) of one call.
Pushed(v, report) ==
    [v EXCEPT !.heap[v.errors] = @ \o report.errors,
              !.heap[v.warnings] = @ \o report.warnings]

\* getValidationResult(): valid is computed now, errors and warnings are
\* the arrays themselves.
getValidationResult(v) ==
    [valid |-> Len(v.heap[v.errors]) = 0, errors |-> v.errors, warnings |-> v.warnings]

\* The caller keeps what the call returned.
Returned(v, method, content) ==
    [v EXCEPT !.reports = Append(@, [method |-> method, content |-> content,
                                     result |-> getValidationResult(v)])]

\* A whole call of validateCSV or validateJSON on the Validator v.
Validated(v, method, content, report) ==
    Returned(Pushed(ResetArrays(v), report), method, content)

\* What a caller reads in a report it holds.
ReadReport(v, result) ==
    [valid |-> result.valid, errors |-> v.heap[result.errors],
     warnings |-> v.heap[result.warnings]]

ValidateCSV ==
    /\ call.op = "idle"
    /\ Len(validator.reports) < MaxCalls
    /\ \E content \in ValidatorContents :
          /\ call' = Call("validateCSV", content, Undef, NoJson)
          /\ validator' = Validated(validator, "validateCSV", content, validateCSV(content))
    /\ ret' = Ret(<<>>, <<>>, <<>>, Bool(validator'.reports[Len(validator'.reports)].result.valid),
                  NoResult)
    /\ UNCHANGED <<csvOptions, jsonOptions, run, objects, app, fileHandler>>

ValidateJSON ==
    /\ call.op = "idle"
    /\ Len(validator.reports) < MaxCalls
    /\ \E content \in ValidatorJsonContents :
          /\ call' = Call("validateJSON", <<>>, Undef, content)
          /\ validator' = Validated(validator, "validateJSON", content, validateJSON(content))
    /\ ret' = Ret(<<>>, <<>>, <<>>, Bool(validator'.reports[Len(validator'.reports)].result.valid),
                  NoResult)
    /\ UNCHANGED <<csvOptions, jsonOptions, run, objects, app, fileHandler>>

\* this.validator = new Validator(): the reports of the old one are dropped.
Construct ==
    /\ call.op = "idle"
    /\ validator # NewValidator
    /\ validator' = NewValidator
    /\ UNCHANGED <<csvOptions, jsonOptions, call, ret, run, objects, app, fileHandler>>

\* new Validator().validateCSV(content): the Validator is a temporary of
\* the caller, who keeps the valid flag of the report.
ValidateNew ==
    /\ call.op = "idle"
    /\ \E content \in QuoteContents :
          /\ call' = Call("validateNew", content, Undef, NoJson)
          /\ ret' = Ret(<<>>, <<>>, <<>>,
                        Bool(getValidationResult(Pushed(ResetArrays(NewValidator),
                                                        validateCSV(content))).valid),
                        NoResult)
    /\ UNCHANGED <<csvOptions, jsonOptions, run, validator, objects, app, fileHandler>>

\* checkMalformedQuotes(lines) for one line: ret.fields is empty or holds
\* the line's number.
CheckMalformedQuotes ==
    /\ call.op = "idle"
    /\ \E line \in Lines :
          /\ call' = Call("checkMalformedQuotes", line, Undef, NoJson)
          /\ ret' = Ret(<<>>, <<>>, checkMalformedQuotes(<<line>>), Undef, NoResult)
    /\ UNCHANGED <<csvOptions, jsonOptions, run, validator, objects, app, fileHandler>>

\* Validator.detectDelimiter(content) and, on the same content, validateCSV
\* of a new Validator and CSVToJSONConverter.detectDelimiter and convert.
ValidatorDetectDelimiter ==
    /\ call.op = "idle"
    /\ \E content \in Texts \cup DetectShapes :
          /\ call' = Call("validatorDetectDelimiter", content, detectDelimiter(content), NoJson)
          /\ ret' = Ret(<<>>, <<>>, validateCSV(content).errors,
                        validatorDetectDelimiter(content), convert(csvOptions, content))
    /\ UNCHANGED <<csvOptions, jsonOptions, run, validator, objects, app, fileHandler>>

\* current[key] for the object current of the heap: __proto__ is the
\* accessor of Object.prototype, an own property comes before an inherited
\* one, and Object.prototype has its built-in constructor, a function.
RECURSIVE GetOf(_, _, _)
GetOf(heap, current, key) ==
    IF key = ProtoKey /\ current = 1 THEN Null
    ELSE IF key = ProtoKey /\ heap[current].proto = 1 THEN Ref(1)
    ELSE IF HasKey(heap[current].props, key) THEN GetProp(heap[current].props, key)
    ELSE IF heap[current].proto = 1 THEN GetOf(heap, 1, key)
    ELSE IF current = 1 /\ key = ConstructorKey THEN Function
    ELSE Undef

\* current[key] = value.  Through the __proto__ accessor the prototype is
\* set: to null for null, not at all for a primitive, and for an object
\* with a TypeError when current is Object.prototype, whose prototype
\* cannot be changed.  Only that case of an object value arises.
PutOf(heap, current, key, value) ==
    IF key = ProtoKey /\ (current = 1 \/ heap[current].proto = 1)
    THEN (IF value.t = "ref" THEN [heap |-> heap, threw |-> TRUE]
          ELSE IF value = Null /\ current # 1
          THEN [heap |-> [heap EXCEPT ![current].proto = 0], threw |-> FALSE]
          ELSE [heap |-> heap, threw |-> FALSE])
    ELSE [heap |-> [heap EXCEPT ![current].props = SetProp(@, key, value)], threw |-> FALSE]

\* The loop of setNestedValue and its last assignment, from the object
\* current on, keys being the rest of path.split('.').
RECURSIVE SetNestedLoop(_, _, _, _)
SetNestedLoop(heap, current, keys, value) ==
    IF Len(keys) = 1 THEN PutOf(heap, current, keys[1], value)
    ELSE IF GetOf(heap, current, keys[1]).t = "ref"
    THEN SetNestedLoop(heap, GetOf(heap, current, keys[1]).m, Tail(keys), value)
    ELSE IF PutOf(heap, current, keys[1], Ref(Len(heap) + 1)).threw
    THEN [heap |-> heap, threw |-> TRUE]
    ELSE SetNestedLoop(PutOf(Append(heap, ObjectLiteral), current, keys[1],
                             Ref(Len(heap) + 1)).heap,
                       Len(heap) + 1, Tail(keys), value)

\* setNestedValue(obj, path, value) on the objects of the heap.
setNestedValueOf(heap, obj, path, value) ==
    SetNestedLoop(heap, obj, splitOn(path, <<".">>), value)

\* const obj = {} of rowsToJSON.
NewObject ==
    /\ call.op = "idle"
    /\ objects.obj = 0
    /\ Len(objects.heap) < MaxHeapObjects
    /\ objects' = [objects EXCEPT !.heap = Append(@, ObjectLiteral),
                                  !.obj = Len(objects.heap) + 1, !.i = 0]
    /\ UNCHANGED <<csvOptions, jsonOptions, call, ret, run, validator, app, fileHandler>>

SetNestedValue ==
    /\ call.op = "idle"
    /\ objects.obj # 0
    /\ objects.i < MaxColumns
    /\ \E path \in Paths, value \in PathValues :
          /\ Len(objects.heap) + Len(splitOn(path, <<".">>)) - 1 <= MaxHeapObjects
          /\ call' = Call("setNestedValue", path, value, NoJson)
          /\ objects' = [objects EXCEPT
                           !.heap = setNestedValueOf(objects.heap, objects.obj, path, value).heap,
                           !.i = @ + 1]
          /\ ret' = Ret(<<>>, <<>>, <<>>,
                        Bool(setNestedValueOf(objects.heap, objects.obj, path, value).threw),
                        NoResult)
    /\ UNCHANGED <<csvOptions, jsonOptions, run, validator, app, fileHandler>>

\* result.push(obj) of rowsToJSON.
PushRecord ==
    /\ call.op = "idle"
    /\ objects.obj # 0
    /\ objects' = [objects EXCEPT !.records = Append(@, objects.obj), !.obj = 0, !.i = 0]
    /\ UNCHANGED <<csvOptions, jsonOptions, call, ret, run, validator, app, fileHandler>>

\* updateConverters(): both converters are made anew from the settings.
JsonToCsvOf(settings) ==
    [JsonDefaults EXCEPT !.delimiter = settings.delimiter,
                         !.includeHeaders = settings.includeHeaders]

CsvToJsonOf(settings) ==
    [CsvDefaults EXCEPT !.delimiter = IF settings.delimiter = <<",">> THEN Null
                                      ELSE Str(settings.delimiter),
                        !.hasHeaders = settings.includeHeaders]

\* validateInput(content): displayValidation reads the report and drops
\* it, so of the Validator's arrays only those of this call stay.
validateInput(v, mode, content) ==
    IF content = NoContent THEN v
    ELSE [errors |-> 1, warnings |-> 2, reports |-> <<>>,
          heap |-> IF mode = "json-to-csv"
                   THEN <<validateJSON(content.json).errors, validateJSON(content.json).warnings>>
                   ELSE <<validateCSV(content.csv).errors, validateCSV(content.csv).warnings>>]

\* convert() of the controller: the call it makes on the converter of
\* currentMode, and what that call returns.
ConverterCall(a) ==
    Call(IF a.currentMode = "json-to-csv" THEN "jsonToCsv.convert" ELSE "csvToJson.convert",
         a.currentInputContent.csv, Undef, a.currentInputContent.json)

ConverterResult(a, csvOpt, jsonOpt) ==
    IF a.currentMode = "json-to-csv" THEN jsonConvert(jsonOpt, a.currentInputContent.json)
    ELSE convert(csvOpt, a.currentInputContent.csv)

\* this.currentOutput after convert() got result.
OutputAfter(a, result) ==
    IF ~result.threw /\ result.success THEN [a EXCEPT !.currentOutput = result] ELSE a

\* convert() of the controller a with the converters of the given options:
\* nothing but a toast when currentInputContent is falsy.
AppConvert(a, csvOpt, jsonOpt) ==
    IF a.currentInputContent = NoContent
    THEN /\ app' = a
         /\ UNCHANGED <<call, ret, fileHandler>>
    ELSE /\ app' = OutputAfter(a, ConverterResult(a, csvOpt, jsonOpt))
         /\ call' = ConverterCall(a)
         /\ ret' = Ret(<<>>, <<>>, <<>>, Undef, ConverterResult(a, csvOpt, jsonOpt))

\* clearInput(): clearFile() of the file handler, whose fileCleared event
\* disables the button, the textarea emptied, the button disabled.
clearInput(a) ==
    [a EXCEPT !.file = NoContent, !.textarea = NoContent, !.convertDisabled = TRUE]

\* The listener of the fileLoaded event: handleFileLoaded(detail), after
\* displayFilePreview has shown the file.
handleFileLoaded(a, content) ==
    [a EXCEPT !.currentInputContent = content, !.file = content, !.convertDisabled = FALSE]

\* getFileType(file): the extension of the name.
getFileType(file) == IF file.name = "a.json" THEN "json" ELSE "csv"

\* validateFileContent(content, type): the report of the handler's Validator.
validateFileContent(content, type) ==
    IF type = "json" THEN validateJSON(content.json) ELSE validateCSV(content.csv)

\* clearFile(): the fields reset, the preview hidden, fileCleared dispatched.
clearFile(h) ==
    [h EXCEPT !.currentFile = NoFile, !.currentFileType = "null",
              !.lastEvent = [type |-> "fileCleared", content |-> NoContent, fileType |-> "null"]]

\* handleFile(file) up to its await: validateFile passes and the read starts.
HandleFile ==
    /\ call.op = "idle"
    /\ fileHandler.handled < MaxHandled
    /\ \E file \in Files :
          fileHandler' = [fileHandler EXCEPT
                            !.handled = @ + 1,
                            !.reads = @ \cup {[id |-> fileHandler.handled + 1, file |-> file]},
                            !.last = [op |-> "handleFile", file |-> file]]
    /\ UNCHANGED <<csvOptions, jsonOptions, call, ret, run, validator, objects, app>>

\* A read completes, in any order, and handleFile goes on after its await:
\* the content is validated, the file stored and shown, fileLoaded
\* dispatched, whose listener is handleFileLoaded.
ReadFile ==
    /\ call.op = "idle"
    /\ \E read \in fileHandler.reads :
          IF validateFileContent(read.file.content, getFileType(read.file)).valid
          THEN /\ fileHandler' =
                     [fileHandler EXCEPT
                        !.reads = @ \ {read},
                        !.errors = <<>>,
                        !.warnings = validateFileContent(read.file.content,
                                                         getFileType(read.file)).warnings,
                        !.currentFile = read.file,
                        !.currentFileType = getFileType(read.file),
                        !.lastEvent = [type |-> "fileLoaded", content |-> read.file.content,
                                       fileType |-> getFileType(read.file)]]
               /\ app' = handleFileLoaded(app, read.file.content)
               /\ validator' = validateInput(validator, app.currentMode, read.file.content)
          ELSE /\ fileHandler' =
                     [fileHandler EXCEPT
                        !.reads = @ \ {read},
                        !.errors = validateFileContent(read.file.content,
                                                       getFileType(read.file)).errors,
                        !.warnings = validateFileContent(read.file.content,
                                                         getFileType(read.file)).warnings]
               /\ UNCHANGED <<app, validator>>
    /\ UNCHANGED <<csvOptions, jsonOptions, call, ret, run, objects>>

\* A click on #removeFile: clearFile(), whose fileCleared event disables
\* the convert button.
ClearFile ==
    /\ call.op = "idle"
    /\ fileHandler' = [clearFile(fileHandler) EXCEPT !.last = [op |-> "clearFile", file |-> NoFile]]
    /\ app' = [app EXCEPT !.file = NoContent, !.convertDisabled = TRUE]
    /\ UNCHANGED <<csvOptions, jsonOptions, call, ret, run, validator, objects>>

\* The input event of the textarea after the user made its value content:
\* handleManualInput().
HandleManualInput ==
    /\ call.op = "idle"
    /\ \E content \in AppContents \cup {NoContent} :
          /\ content # app.textarea
          /\ app' = [app EXCEPT !.textarea = content, !.currentInputContent = content,
                                !.convertDisabled = (content = NoContent)]
          /\ validator' = validateInput(validator, app.currentMode, content)
    /\ UNCHANGED <<csvOptions, jsonOptions, call, ret, run, objects, fileHandler>>

\* A click on #clearInput.
ClearInput ==
    /\ call.op = "idle"
    /\ app' = clearInput(app)
    /\ fileHandler' = [clearFile(fileHandler) EXCEPT !.last = [op |-> "clearFile", file |-> NoFile]]
    /\ UNCHANGED <<csvOptions, jsonOptions, call, ret, run, validator, objects>>

\* A click on #toggleDirection.
ToggleDirection ==
    /\ call.op = "idle"
    /\ app' = clearInput([app EXCEPT !.currentMode = IF @ = "json-to-csv" THEN "csv-to-json"
                                                     ELSE "json-to-csv"])
    /\ fileHandler' = [clearFile(fileHandler) EXCEPT !.last = [op |-> "clearFile", file |-> NoFile]]
    /\ UNCHANGED <<csvOptions, jsonOptions, call, ret, run, validator, objects>>

\* The change event of a setting: updateConverters(), then convert() when
\* currentInputContent is truthy.
SettingsChange ==
    /\ call.op = "idle"
    /\ \E settings \in AppSettings :
          /\ settings # app.settings
          /\ csvOptions' = CsvToJsonOf(settings)
          /\ jsonOptions' = JsonToCsvOf(settings)
          /\ AppConvert([app EXCEPT !.settings = settings],
                        CsvToJsonOf(settings), JsonToCsvOf(settings))
    /\ UNCHANGED <<run, validator, objects, fileHandler>>

\* Ctrl+Enter: convert() unless the button is disabled.
CtrlEnter ==
    /\ call.op = "idle"
    /\ ~app.convertDisabled
    /\ AppConvert(app, csvOptions, jsonOptions)
    /\ UNCHANGED <<csvOptions, jsonOptions, run, validator, objects, fileHandler>>

\* A click on #convertBtn, which a disabled button does not receive.
ConvertClick ==
    /\ call.op = "idle"
    /\ ~app.convertDisabled
    /\ AppConvert(app, csvOptions, jsonOptions)
    /\ UNCHANGED <<csvOptions, jsonOptions, run, validator, objects, fileHandler>>

\* An array of rows as a value.
RowsValue(rows) == Arr([r \in 1..Len(rows) |-> Arr(rows[r])])

ParseCSV ==
    /\ call.op = "idle"
    /\ \E text \in Texts, delimiter \in LineDelimiters :
          /\ call' = Call("parseCSV", text, delimiter, NoJson)
          /\ ret' = Ret(<<>>, <<>>, <<>>, RowsValue(parseCSV(csvOptions, text, delimiter)),
                        NoResult)
    /\ UNCHANGED <<csvOptions, jsonOptions, run, validator, objects, app, fileHandler>>

ParseWithRecovery ==
    /\ call.op = "idle"
    /\ \E text \in Texts, delimiter \in LineDelimiters :
          /\ call' = Call("parseWithRecovery", text, delimiter, NoJson)
          /\ ret' = Ret(<<>>, <<>>, <<>>,
                        RowsValue(parseWithRecovery(csvOptions, text, delimiter)), NoResult)
    /\ UNCHANGED <<csvOptions, jsonOptions, run, validator, objects, app, fileHandler>>

\* The CSV text a successful JSONToCSVConverter.convert returned is handed
\* to CSVToJSONConverter.convert; call.json stays the original input.
ConvertBack ==
    /\ call.op = "jsonConvert"
    /\ ret.result.success
    /\ call' = [call EXCEPT !.op = "convertBack", !.arg = ret.result.data.s]
    /\ ret' = Ret(ret.result.data.s, <<>>, <<>>, Undef, convert(csvOptions, ret.result.data.s))
    /\ UNCHANGED <<csvOptions, jsonOptions, run, validator, objects, app, fileHandler>>

\* ------------------------------------------------------------------------
\* Specifications
\* ------------------------------------------------------------------------
InitIdle == call = Idle /\ ret = NoRet /\ run = NoRun /\ validator = NewValidator /\ objects = NoObjects /\ app = NewParseKIT /\ fileHandler = NewFileHandler

\* The conversion entry points of both engines.
Init ==
    /\ InitIdle
    /\ \/ csvOptions \in CsvConfigs /\ jsonOptions = JsonDefaults
       \/ /\ jsonOptions \in JsonConfigs
          /\ csvOptions = [CsvDefaults EXCEPT !.delimiter = Str(jsonOptions.delimiter)]

Next == Convert \/ ConvertLarge \/ JsonConvert \/ ConvertBack \/ Done

Spec == Init /\ [][Next]_vars

\* The field tokenizer and value coercion.
InitTokenizer ==
    /\ InitIdle
    /\ csvOptions \in CoercionConfigs
    /\ jsonOptions = JsonDefaults

NextTokenizer == ParseLine \/ ParseLineBase \/ ProcessField \/ Done

SpecTokenizer == InitTokenizer /\ [][NextTokenizer]_vars

\* Quoting by one engine, tokenizing by the other.
InitQuoting ==
    /\ InitIdle
    /\ csvOptions \in CoercionConfigs
    /\ jsonOptions \in {JsonDefaults,
                        [JsonDefaults EXCEPT !.delimiter = <<";">>],
                        [JsonDefaults EXCEPT !.quoteChar = <<"'">>],
                        [JsonDefaults EXCEPT !.quoteChar = <<".">>]}

NextQuoting == EscapeValue \/ ParseEscaped \/ Done

SpecQuoting == InitQuoting /\ [][NextQuoting]_vars

\* Delimiter detection.
InitDetect ==
    /\ InitIdle
    /\ csvOptions = CsvDefaults
    /\ jsonOptions = JsonDefaults

NextDetect == DetectDelimiter \/ Done

SpecDetect == InitDetect /\ [][NextDetect]_vars

\* ------------------------------------------------------------------------
\* The field tokenizer (C1)
\* ------------------------------------------------------------------------
Count(s, c) == Cardinality({i \in 1..Len(s) : s[i] = c})

\* A position of a line lies outside the quoted spans when an even number
\* of quote characters precedes it.
QuotesBefore(line, i) == Cardinality({j \in 1..(i - 1) : line[j] = QUOTE})
OutsideQuotes(line, i) == QuotesBefore(line, i) % 2 = 0

\* The delimiters at which the line is split: outside the quoted spans and,
\* under the backslash rule, not preceded by a backslash.
SplitPoints(line, d, backslashRule) ==
    {i \in 1..Len(line) :
        /\ line[i] = d
        /\ OutsideQuotes(line, i)
        /\ ~(backslashRule /\ i > 1 /\ line[i - 1] = BACKSLASH)}

\* The tokenizer as the rules state it, one character at a time and without
\* looking ahead.  mode "out": outside quotes; "in": inside a quoted span;
\* "quote": inside a span, a quote was just read; "escape": outside quotes,
\* a backslash was just read.
RECURSIVE RuleTokens(_, _, _, _, _, _)
RuleTokens(line, d, backslashRule, mode, cur, done) ==
    IF line = <<>>
    THEN Append(done, IF mode = "escape" THEN Append(cur, BACKSLASH) ELSE cur)
    ELSE
      LET c == Head(line)
          rest == Tail(line)
      IN  CASE mode = "in" /\ c = QUOTE ->
                 RuleTokens(rest, d, backslashRule, "quote", cur, done)
            [] mode = "in" /\ c # QUOTE ->
                 RuleTokens(rest, d, backslashRule, "in", Append(cur, c), done)
            [] mode = "quote" /\ c = QUOTE ->
                 RuleTokens(rest, d, backslashRule, "in", Append(cur, QUOTE), done)
            [] mode = "quote" /\ c # QUOTE ->
                 RuleTokens(line, d, backslashRule, "out", cur, done)
            [] mode = "escape" /\ c = d ->
                 RuleTokens(rest, d, backslashRule, "out", Append(cur, d), done)
            [] mode = "escape" /\ c # d ->
                 RuleTokens(line, d, backslashRule, "out", Append(cur, BACKSLASH), done)
            [] mode = "out" /\ c = QUOTE ->
                 RuleTokens(rest, d, backslashRule, "in", cur, done)
            [] mode = "out" /\ c # QUOTE /\ c = d ->
                 RuleTokens(rest, d, backslashRule, "out", <<>>, Append(done, cur))
            [] mode = "out" /\ c # QUOTE /\ c # d /\ c = BACKSLASH /\ backslashRule ->
                 RuleTokens(rest, d, backslashRule, "escape", cur, done)
            [] OTHER ->
                 RuleTokens(rest, d, backslashRule, "out", Append(cur, c), done)

RECURSIVE SumCount(_, _)
SumCount(texts, c) ==
    IF texts = <<>> THEN 0 ELSE Count(Head(texts), c) + SumCount(Tail(texts), c)

SmithLine == <<"1", ",", QUOTE, "a", ",", SPACE, "b", QUOTE>>

\* C1: parseLine splits a line exactly at the delimiters outside the quoted
\* spans (under the backslash rule: not preceded by a backslash).  The field
\* texts it closes are those of the quoting rules (a quote outside a span
\* opens it and emits nothing, a doubled quote inside emits one quote, any
\* other quote inside closes the span); the number of fields is 1 + the number
\* of such delimiters; every other delimiter of the line is field text; each
\* returned field is processField of its text.
C1_TokenizerSplits ==
    call.op \in {"parseLine", "parseLineBase"} =>
        LET rule == call.op = "parseLine"
            d == call.delimiter.s[1]
            splits == SplitPoints(call.arg, d, rule)
        IN  /\ Len(ret.fields) = 1 + Cardinality(splits)
            /\ ret.raw = RuleTokens(call.arg, d, rule, "out", <<>>, <<>>)
            /\ Count(call.arg, d) = Cardinality(splits) + SumCount(ret.raw, d)
            /\ ret.fields = [i \in 1..Len(ret.raw) |-> processField(csvOptions, ret.raw[i])]
            /\ (call.arg = SmithLine /\ d = "," /\ csvOptions = CsvDefaults
                  => ret.fields = <<Fin(1, 0), Str(<<"a", ",", SPACE, "b">>)>>)

\* A line with a quoted delimiter, a doubled quote and a backslash-escaped
\* delimiter has been tokenized, and so has the example line.
C1_Witness ==
    /\ call.op = "parseLine"
    /\ call.delimiter = Str(<<",">>)
    /\ \/ call.arg = SmithLine /\ csvOptions = CsvDefaults /\ Len(ret.fields) = 2
       \/ /\ \E i \in 1..Len(call.arg) : call.arg[i] = "," /\ ~OutsideQuotes(call.arg, i)
          /\ \E i \in 2..Len(call.arg) :
                call.arg[i] = "," /\ call.arg[i - 1] = BACKSLASH /\ OutsideQuotes(call.arg, i)
          /\ Len(ret.fields) = 1

\* ------------------------------------------------------------------------
\* Records and the Column Set (C2)
\* ------------------------------------------------------------------------
\* The rows of the input that convert keeps: the tokenized non-blank lines,
\* without the rows that have no content when skipEmptyLines is on.
KeptRows(opt, input) ==
    LET text == removeBOM(input)
        d == IF Truthy(opt.delimiter) THEN opt.delimiter ELSE detectDelimiter(text)
        rows == parseCSV(opt, text, d)
    IN  IF opt.skipEmptyLines THEN SelectSeq(rows, HasContent) ELSE rows

\* The Column Set of a conversion: customHeaders, else the header row, else
\* column1..columnN with N the longest row.
ColumnSet(opt, input) ==
    LET rows == KeptRows(opt, input)
    IN  IF Truthy(opt.customHeaders)
        THEN [i \in 1..Len(opt.customHeaders.a) |-> opt.customHeaders.a[i].s]
        ELSE IF opt.hasHeaders THEN [i \in 1..Len(rows[1]) |-> StringOf(rows[1][i])]
        ELSE [i \in 1..MaxOf({Len(rows[r]) : r \in 1..Len(rows)}) |-> ColumnName(i)]

\* C2, for an engine with the default options: after a successful convert
\* (outputFormat 'array', nestedOutput off) every record has exactly the Column Set as its keys, one key per column
\* and in column order, and result.columns is the number of keys of every
\* record.
C2_RecordsHaveColumnSet ==
    (/\ call.op = "convert"
     /\ ret.result.success
     /\ csvOptions = CsvDefaults
     /\ csvOptions.outputFormat = "array"
     /\ ~csvOptions.nestedOutput)
    => \A r \in 1..Len(ret.result.parsed.a) :
          /\ Keys(ret.result.parsed.a[r].o) = ColumnSet(csvOptions, call.arg)
          /\ Len(ret.result.parsed.a[r].o) = ret.result.columns

\* ------------------------------------------------------------------------
\* Quoting (C3, C4)
\* ------------------------------------------------------------------------
\* s with every occurrence of the one-character string q doubled.
Doubled(s, q) ==
    Concat([i \in 1..Len(s) |-> IF <<s[i]>> = q THEN q \o q ELSE <<s[i]>>])

NeedsQuoting(opt, s) ==
    \/ includesStr(s, opt.delimiter)
    \/ includesStr(s, opt.quoteChar)
    \/ includes(s, LF)
    \/ includes(s, CR)

\* C3: escapeValue(s) is s between quote characters, with every quote
\* character of s doubled, if s contains the delimiter, the quote character,
\* \n or \r; otherwise it is s unchanged.
C3_EscapeValueQuotes ==
    call.op = "escapeValue" =>
        ret.text = IF NeedsQuoting(jsonOptions, call.arg)
                   THEN jsonOptions.quoteChar \o Doubled(call.arg, jsonOptions.quoteChar)
                        \o jsonOptions.quoteChar
                   ELSE call.arg

\* C4, for engines with the default options: for every string s that
\* contains the delimiter, the quote character or a newline, parseLine of
\* escapeValue(s), with the same delimiter, returns exactly one field, and
\* that field is exactly s.
C4_QuotingRoundTrip ==
    (/\ call.op = "parseEscaped"
     /\ csvOptions = CsvDefaults
     /\ jsonOptions.quoteChar = <<QUOTE>>
     /\ \/ includesStr(call.arg, jsonOptions.delimiter)
        \/ includes(call.arg, QUOTE)
        \/ includes(call.arg, LF))
    => ret.fields = <<Str(call.arg)>>

\* ------------------------------------------------------------------------
\* Record round trip (C5)
\* ------------------------------------------------------------------------
\* x read back as y: equal, or equal as texts (a number and the string that
\* spells it).
SameUpToCoercion(x, y) == x = y \/ StringOf(x) = StringOf(y)

\* The original input is a non-empty array of records that all have the
\* same, non-empty list of keys and no null value, and the reading engine's
\* configuration matches the writing engine's.
RoundTripCase ==
    /\ call.op = "convertBack"
    /\ call.json.value.t = "arr"
    /\ Len(call.json.value.a) >= 1
    /\ \A i \in 1..Len(call.json.value.a) :
          /\ call.json.value.a[i].t = "obj"
          /\ Len(call.json.value.a[i].o) >= 1
          /\ Keys(call.json.value.a[i].o) = Keys(call.json.value.a[1].o)
          /\ \A j \in 1..Len(call.json.value.a[i].o) : call.json.value.a[i].o[j].v # Null
    /\ jsonOptions.includeHeaders
    /\ jsonOptions.quoteChar = <<QUOTE>>
    /\ csvOptions = [CsvDefaults EXCEPT !.delimiter = Str(jsonOptions.delimiter)]

\* C5: JSONToCSVConverter.convert followed by CSVToJSONConverter.convert
\* with matching configuration returns as many records as were written, with
\* the same keys in the same order and the same values up to the coercion of
\* read-back.
C5_RecordRoundTrip ==
    RoundTripCase =>
        LET before == call.json.value.a
            after == ret.result.parsed.a
        IN  /\ ret.result.success
            /\ Len(after) = Len(before)
            /\ \A i \in 1..Len(before) :
                  /\ Keys(after[i].o) = Keys(before[i].o)
                  /\ \A j \in 1..Len(before[i].o) :
                        SameUpToCoercion(before[i].o[j].v, after[i].o[j].v)

\* ------------------------------------------------------------------------
\* Delimiter detection (C6, C7)
\* ------------------------------------------------------------------------
\* The sample: the first five non-blank lines.
Sample(text) ==
    LET nonBlank == NonBlankLines(text)
    IN  [i \in 1..(IF Len(nonBlank) < 5 THEN Len(nonBlank) ELSE 5) |-> nonBlank[i]]

\* Occurrences of a character outside the quoted spans of a line.
Occurrences(line, c) ==
    Cardinality({i \in 1..Len(line) : line[i] = c /\ OutsideQuotes(line, i)})

\* Candidate k's count on the first sampled line, and the number of sampled
\* lines with that count (its consistency times the size of the sample).
FirstCount(sample, k) == Occurrences(sample[1], delimiters[k])
Consistent(sample, k) ==
    Cardinality({i \in 1..Len(sample) :
                    Occurrences(sample[i], delimiters[k]) = FirstCount(sample, k)})

\* The candidates that are not rejected.
Eligible(sample) ==
    IF Len(sample) = 0 THEN {}
    ELSE {k \in 1..Len(delimiters) : FirstCount(sample, k) > 0}

\* The candidate of highest consistency, the earliest of them on a tie.
BestCandidate(sample) ==
    CHOOSE k \in Eligible(sample) :
        \A j \in Eligible(sample) :
            \/ Consistent(sample, j) < Consistent(sample, k)
            \/ (Consistent(sample, j) = Consistent(sample, k) /\ k <= j)

CommaExample ==
    <<"a", ",", "b", ",", "c", LF, "1", ",", "2", ",", "3", LF, "4", ",", "5", ",", "6">>
SemicolonExample == <<"a", ";", "b", ";", "c", LF, "1", ";", "2", ";", "3">>

\* C6: detectDelimiter returns the candidate, among those with a positive
\* count on the first of the first five non-blank lines, whose count is the
\* same on the largest fraction of these lines, the earliest of `,` `;` tab
\* `|` on a tie, and null when there is no such candidate; the two example
\* texts give `,` and `;`.
C6_DetectDelimiter ==
    call.op = "detectDelimiter" =>
        LET sample == Sample(call.arg)
        IN  /\ ret.value = IF Eligible(sample) = {} THEN Null
                           ELSE Str(<<delimiters[BestCandidate(sample)]>>)
            /\ (call.arg = CommaExample => ret.value = Str(<<",">>))
            /\ (call.arg = SemicolonExample => ret.value = Str(<<";">>))

\* Detection has run on more than five non-blank lines, two candidates tie
\* on the sample and the earlier one was returned, and a line beyond the
\* sample has a different count of it.
C6_Witness ==
    /\ call.op = "detectDelimiter"
    /\ LET sample == Sample(call.arg)
           all == NonBlankLines(call.arg)
       IN  /\ Len(all) > 5
           /\ {1, 2} \subseteq Eligible(sample)
           /\ Consistent(sample, 1) = Consistent(sample, 2)
           /\ Consistent(sample, 1) < Len(sample)
           /\ Occurrences(all[6], ",") # FirstCount(sample, 1)
           /\ ret.value = Str(<<",">>)

\* No delimiter is configured and no candidate occurs outside quotes on the
\* first non-blank line of a non-blank input.
NoDelimiterCase ==
    /\ call.op \in {"convert", "convertLarge"}
    /\ ~Truthy(csvOptions.delimiter)
    /\ ~IsBlank(call.arg)
    /\ LET sample == Sample(removeBOM(call.arg))
       IN  Len(sample) > 0 /\ Eligible(sample) = {}

\* C7: when no delimiter is configured and none can be detected, convert
\* and convertLarge return a failure that names the delimiter-detection
\* error; they do not parse the input and report success.
C7_NoSilentDelimiter ==
    NoDelimiterCase =>
        /\ ~ret.result.threw
        /\ ~ret.result.success
        /\ ret.result.error = "Unable to detect CSV delimiter. Please specify delimiter manually."

\* ------------------------------------------------------------------------
\* Value Coercion (C8)
\* ------------------------------------------------------------------------
\* A finite numeric literal: it has a digit and Number() of it is finite.
FiniteNumericLiteral(value) ==
    /\ \E i \in 1..Len(value) : value[i] \in Digits
    /\ isFinite(ToNumber(value))

\* C8: processField is the rule chain, first match wins, each rule only
\* when its option is on: trim; null for '', null or NULL; true/false when
\* the lower-cased value is exactly true/false; a Number only when the value
\* is a finite numeric literal; otherwise the value stays a string.
C8_CoercionChain ==
    call.op = "processField" =>
        LET value == IF csvOptions.trimValues THEN trim(call.arg) ELSE call.arg
        IN  ret.value =
              IF csvOptions.parseNulls
                 /\ value \in {<<>>, NullWord, <<"N", "U", "L", "L">>}
              THEN Null
              ELSE IF csvOptions.parseBooleans /\ toLowerCase(value) = TrueWord
              THEN Bool(TRUE)
              ELSE IF csvOptions.parseBooleans /\ toLowerCase(value) = FalseWord
              THEN Bool(FALSE)
              ELSE IF csvOptions.parseNumbers /\ FiniteNumericLiteral(value)
              THEN ToNumber(value)
              ELSE Str(value)

\* ------------------------------------------------------------------------
\* Results, not exceptions (C9, C10)
\* ------------------------------------------------------------------------
\* C9: convert, convertLarge and JSONToCSVConverter.convert return a result
\* object, success true or success false with an error message, for every
\* input; no exception leaves them.
C9_NoExceptionEscapes ==
    call.op \in {"convert", "convertLarge", "jsonConvert", "convertBack"} =>
        /\ ~ret.result.threw
        /\ (~ret.result.success => ret.result.error # "")

\* A line of the input has an odd number of quote characters.
OddQuoteLine(text) ==
    \E i \in 1..Len(splitLines(text)) : Count(splitLines(text)[i], QUOTE) % 2 = 1

\* C10: with the default options convert does not return success with
\* records for an input that has a line with an odd number of quote
\* characters.
C10_MalformedQuotingFails ==
    (/\ call.op = "convert"
     /\ csvOptions = CsvDefaults
     /\ OddQuoteLine(call.arg))
    => ~(ret.result.success /\ ret.result.rows > 0)

\* ------------------------------------------------------------------------
\* Further specifications
\* ------------------------------------------------------------------------
\* The line-level parsers of the CSV engine.
InitRows ==
    /\ InitIdle
    /\ csvOptions \in {CsvDefaults, [CsvDefaults EXCEPT !.trimValues = FALSE]}
    /\ jsonOptions = JsonDefaults

NextRows == ParseCSV \/ ParseWithRecovery \/ Done

SpecRows == InitRows /\ [][NextRows]_vars

\* ------------------------------------------------------------------------
\* Multi-line fields (C11)
\* ------------------------------------------------------------------------
\* The line feeds of a text that lie outside the quoted spans.
LineBreaksOutsideQuotes(text) ==
    {i \in 1..Len(text) : text[i] = LF /\ OutsideQuotes(text, i)}

\* A quoted span of the text holds a line feed and is closed after it.
QuotedLineBreak(text) ==
    \E i \in 1..Len(text) :
        /\ text[i] = LF
        /\ ~OutsideQuotes(text, i)
        /\ \E j \in (i + 1)..Len(text) : text[j] = QUOTE

\* C11: when a line ends inside a quoted field, the next line continues that
\* field: the text yields no more rows than it has line ends outside the
\* quoted spans, plus one.
C11_MultiLineContinuation ==
    (call.op \in {"parseCSV", "parseWithRecovery"} /\ QuotedLineBreak(call.arg))
        => Len(ret.value.a) <= Cardinality(LineBreaksOutsideQuotes(call.arg)) + 1

\* ------------------------------------------------------------------------
\* Circular references (C12)
\* ------------------------------------------------------------------------
InitGraph ==
    /\ InitIdle
    /\ csvOptions = CsvDefaults
    /\ jsonOptions = JsonDefaults

NextGraph == HasCircularReference \/ Done

SpecGraph == InitGraph /\ [][NextGraph]_vars

\* The objects a property of object n refers to.
Referenced(heap, n) == {heap[n][i] : i \in 1..Len(heap[n])} \ {0}

\* The objects reachable from a set of objects, these included.
RECURSIVE ReachableFrom(_, _)
ReachableFrom(heap, objs) ==
    IF UNION {Referenced(heap, n) : n \in objs} \subseteq objs THEN objs
    ELSE ReachableFrom(heap, objs \cup UNION {Referenced(heap, n) : n \in objs})

\* Some object reachable from obj is reachable from itself.
HasCycle(heap, obj) ==
    \E n \in ReachableFrom(heap, {obj}) : n \in ReachableFrom(heap, Referenced(heap, n))

\* C12: hasCircularReference(x) is true exactly when the object graph
\* reachable from x has a reference cycle.
C12_CircularIffCycle ==
    call.op = "hasCircularReference"
        => (ret.value = Bool(TRUE) <=> HasCycle(call.arg, call.delimiter.m))

\* ------------------------------------------------------------------------
\* Flattening nested records (C13 to C16)
\* ------------------------------------------------------------------------
InitFlatten ==
    /\ InitIdle
    /\ csvOptions = [CsvDefaults EXCEPT !.nestedOutput = TRUE, !.delimiter = Str(<<",">>)]
    /\ jsonOptions \in FlattenConfigs

NextFlatten == ConvertArrayOfObjects \/ ConvertFlattened \/ Done

SpecFlatten == InitFlatten /\ [][NextFlatten]_vars

\* The key paths the flattening rule gives for a value reached by path: a
\* non-array object above the depth limit is descended, anything else is
\* a column.
RECURSIVE ColumnPaths(_, _, _)
ColumnPaths(value, path, limit) ==
    IF value.t = "obj" /\ Len(path) < limit
    THEN UNION {ColumnPaths(value.o[i].v, Append(path, value.o[i].k), limit) :
                  i \in 1..Len(value.o)}
    ELSE {path}

\* The value a key path leads to.
RECURSIVE ValueAt(_, _)
ValueAt(value, path) ==
    IF path = <<>> THEN value
    ELSE ValueAt(GetProp(value.o, Head(path)), Tail(path))

ColumnPathsOfArray(array, limit) ==
    UNION {IF array[r].t = "obj" /\ array[r].o # <<>>
           THEN ColumnPaths(array[r], <<>>, limit) ELSE {} : r \in 1..Len(array)}

\* A record of the array has a non-array object at a path as long as the
\* depth limit.
SubObjectAtLimit(array, r, path, limit) ==
    /\ array[r].t = "obj"
    /\ path \in ColumnPaths(array[r], <<>>, limit)
    /\ Len(path) = limit
    /\ ValueAt(array[r], path).t = "obj"

\* C13: with flattenObjects on the columns are the key paths of the
\* flattening rule joined by nestingSeparator, and the cell of a sub-object
\* at the depth limit is that sub-object serialized.
C13_FlattenedColumns ==
    (call.op = "convertArrayOfObjects" /\ jsonOptions.flattenObjects)
        => /\ {ret.fields[i] : i \in 1..Len(ret.fields)}
                = {join(p, jsonOptions.nestingSeparator) :
                     p \in ColumnPathsOfArray(call.arg, jsonOptions.maxNestingDepth)}
           /\ \A r \in 1..Len(call.arg) :
                \A p \in ColumnPathsOfArray(call.arg, jsonOptions.maxNestingDepth) :
                  SubObjectAtLimit(call.arg, r, p, jsonOptions.maxNestingDepth)
                    => \E i \in 1..Len(ret.fields) :
                         /\ ret.fields[i] = join(p, jsonOptions.nestingSeparator)
                         /\ ret.value.a[r].a[i].s
                              = escapeValue(jsonOptions, JSONText(ValueAt(call.arg[r], p)))

\* A value all of whose leaves are scalars and none of whose objects is
\* empty.
RECURSIVE ScalarLeaves(_)
ScalarLeaves(value) ==
    IF value.t = "obj"
    THEN value.o # <<>> /\ \A i \in 1..Len(value.o) : ScalarLeaves(value.o[i].v)
    ELSE value.t # "arr"

\* One nested record with scalar leaves, no deeper than maxNestingDepth,
\* flattened with the defaults and read back with nestedOutput.
UnflattenCase ==
    /\ call.op = "convertFlattened"
    /\ Len(call.arg) = 1
    /\ call.arg[1].t = "obj"
    /\ ScalarLeaves(call.arg[1])
    /\ \A p \in ColumnPaths(call.arg[1], <<>>, jsonOptions.maxNestingDepth) :
          ValueAt(call.arg[1], p).t # "obj"
    /\ jsonOptions.flattenObjects
    /\ jsonOptions.customHeaders = Null
    /\ csvOptions.nestedOutput

\* C14: flattening a nested record with scalar leaves and depth within
\* maxNestingDepth, then unflattening with the same separator, gives the
\* original record back.
C14_FlattenUnflatten ==
    UnflattenCase
        => /\ ret.result.success
           /\ ret.result.parsed = Arr(<<call.arg[1]>>)

\* C15: with the default configuration a field of a record whose value is an
\* empty object has a column in which the record's cell is {}, and one
\* whose value is an empty array a column in which the cell is [].
C15_EmptyContainers ==
    (call.op = "convertArrayOfObjects" /\ jsonOptions = JsonDefaults)
        => \A r \in 1..Len(call.arg) :
             call.arg[r].t = "obj"
               => \A j \in 1..Len(call.arg[r].o) :
                    call.arg[r].o[j].v \in {Obj(<<>>), Arr(<<>>)}
                      => \E i \in 1..Len(ret.fields) :
                           /\ ret.fields[i] = call.arg[r].o[j].k
                           /\ ret.value.a[r].a[i].s
                                = (IF call.arg[r].o[j].v = Obj(<<>>)
                                   THEN <<"{", "}">> ELSE <<"[", "]">>)

\* C16: when customHeaders is given the header row is customHeaders and the
\* row of every record has, at each position, the record's value for the
\* custom header at that position.
C16_CustomHeadersLayout ==
    (call.op = "convertArrayOfObjects" /\ jsonOptions.customHeaders # Null)
        => /\ jsonOptions.includeHeaders
                => splitOn(ret.text, jsonOptions.lineEnding)[1]
                     = formatRow(jsonOptions, [i \in 1..Len(jsonOptions.customHeaders.a) |->
                                                 jsonOptions.customHeaders.a[i].s])
           /\ \A r \in 1..Len(call.arg) :
                call.arg[r].t = "obj"
                  => ret.value.a[r]
                       = StrCells([i \in 1..Len(jsonOptions.customHeaders.a) |->
                                     formatValue(jsonOptions,
                                                 getNestedValue(jsonOptions, call.arg[r],
                                                                jsonOptions.customHeaders.a[i].s))])

\* ------------------------------------------------------------------------
\* Chunked conversion (C17 to C20)
\* ------------------------------------------------------------------------
\* C17: convertLarge returns the parsed records, the serialized text and the
\* row count that convert returns for the same text and configuration.
C17_ConvertLargeAsConvert ==
    call.op = "convertLarge"
        => /\ ret.result.parsed = convert(csvOptions, call.arg).parsed
           /\ ret.result.data = convert(csvOptions, call.arg).data
           /\ ret.result.rows = convert(csvOptions, call.arg).rows

InitChunks ==
    /\ InitIdle
    /\ csvOptions \in {[CsvDefaults EXCEPT !.delimiter = Str(<<",">>)],
                       [CsvDefaults EXCEPT !.delimiter = Str(<<",">>), !.hasHeaders = FALSE]}
    /\ jsonOptions \in {JsonDefaults, [JsonDefaults EXCEPT !.includeHeaders = FALSE]}

NextChunks ==
    \/ ConvertInChunksStart
    \/ ConvertInChunksChunk
    \/ ConvertInChunksReturn
    \/ ConvertLargeStart
    \/ ConvertLargeChunk
    \/ ConvertLargeReturn
    \/ ProgressCallback
    \/ Done

SpecChunks == InitChunks /\ [][NextChunks]_vars

\* convertInChunks has returned, and its callback, if any, called no
\* updateOptions.
ChunksReturned ==
    /\ run.pc = "returned"
    /\ run.op = "convertInChunks"
    /\ run.callback.updates = <<>>

\* C18: the text convertInChunks returns for an array of records is the text
\* convertArrayOfObjects returns for it, whatever the chunk size.
C18_ChunksAsWhole ==
    (ChunksReturned /\ \A j \in 1..Len(run.items) : IsObject(run.items[j]))
        => ret.text = convertArrayOfObjects(run.options, run.items)

\* The number of chunks of n items taken size at a time: ceil(n / size).
ChunkCount(n, size) == (n + size - 1) \div size

\* The number of passes of the loop whose rows are in result: those whose
\* callback was invoked, and the one whose callback is about to be.
ChunksEmitted == Len(run.calls) + (IF run.pc = "callback" THEN 1 ELSE 0)

\* The rows in result: the pieces after the header of convertInChunks, the
\* records of convertLarge.
RowsEmitted ==
    IF run.op = "convertInChunks" THEN Len(run.result) - Len(ChunksHeader(run.options, run.keys))
    ELSE Len(run.result)

\* The rows the first m items give: one for every object of convertInChunks,
\* one for every data row of convertLarge.
RowsOfFirst(m) ==
    IF run.op = "convertInChunks"
    THEN Cardinality({j \in 1..m : IsObject(run.items[j])})
    ELSE m

C20_OptionsFixedAtCall ==
    (run.pc = "returned" /\ run.callback.updates # <<>>)
        => IF run.op = "convertInChunks"
           THEN ret.text = Concat(ChunksHeader(run.options, run.keys)
                                  \o ChunkPieces(run.options, run.items, run.keys))
           ELSE ret.result = convertLarge(run.options, call.arg)

\* ------------------------------------------------------------------------
\* Blank lines (C21)
\* ------------------------------------------------------------------------
\* C21: with skipEmptyLines off no line of the input is dropped: after the
\* header line every line, blank or not, is a row of the result.
C21_BlankLinesKept ==
    (/\ call.op = "convert"
     /\ ~csvOptions.skipEmptyLines
     /\ csvOptions.hasHeaders
     /\ csvOptions.customHeaders = Null
     /\ ret.result.success)
        => ret.result.rows = Len(splitLines(call.arg)) - 1


\* ------------------------------------------------------------------------
\* Validator
\* ------------------------------------------------------------------------
InitValidator == InitIdle /\ csvOptions = CsvDefaults /\ jsonOptions = JsonDefaults

NextQuotes == CheckMalformedQuotes \/ ValidateNew \/ Done

SpecQuotes == InitValidator /\ [][NextQuotes]_vars

NextValidator == ValidateCSV \/ ValidateJSON \/ Construct \/ Done

SpecValidator == InitValidator /\ [][NextValidator]_vars

NextDelimiters == ValidatorDetectDelimiter \/ Done

SpecDelimiters == InitValidator /\ [][NextDelimiters]_vars

\* The quote characters of a line that are not escaped: those that open or
\* close a quoted span, a doubled one inside a span being an escaped quote.
RECURSIVE UnescapedQuotes(_, _, _)
UnescapedQuotes(line, i, inQuotes) ==
    IF i > Len(line) THEN 0
    ELSE IF line[i] = QUOTE /\ inQuotes /\ i < Len(line) /\ line[i + 1] = QUOTE
    THEN UnescapedQuotes(line, i + 2, inQuotes)
    ELSE IF line[i] = QUOTE THEN 1 + UnescapedQuotes(line, i + 1, ~inQuotes)
    ELSE UnescapedQuotes(line, i + 1, inQuotes)

OddQuotes(line) == UnescapedQuotes(line, 1, FALSE) % 2 = 1

\* C22: checkMalformedQuotes flags a line exactly when the number of its
\* unescaped quote characters is odd, and validateCSV of a content with
\* lines reports valid = false exactly when one of its lines is such a line.
C22_OddQuotesFlagged ==
    /\ call.op = "checkMalformedQuotes"
          => ((ret.fields # <<>>) <=> OddQuotes(call.arg))
    /\ (call.op = "validateNew" /\ Len(NonBlankLines(call.arg)) > 0)
          => ((ret.value = Bool(FALSE))
                 <=> \E i \in 1..Len(NonBlankLines(call.arg)) : OddQuotes(NonBlankLines(call.arg)[i]))

\* What a new Validator returns for the content of a call.
FreshReport(method, content) ==
    IF method = "validateCSV" THEN validateCSV(content) ELSE validateJSON(content)

\* C23: whatever calls were made on the Validator, every report a caller
\* holds reads, now and after every later call, as the report a new
\* Validator returns for the content of its call.
C23_ReportsAsFresh ==
    \A i \in 1..Len(validator.reports) :
        ReadReport(validator, validator.reports[i].result)
            = FreshReport(validator.reports[i].method, validator.reports[i].content)

\* A second call was made after one that reported errors and a warning-free
\* call after one that gave warnings.
C23_Witness ==
    /\ Len(validator.reports) = MaxCalls
    /\ validator.heap[validator.reports[1].result.errors] # <<>>
    /\ validator.reports[1].method # validator.reports[MaxCalls].method
    /\ validator.reports[MaxCalls].result.valid
    /\ validator.heap[validator.reports[MaxCalls].result.warnings] # <<>>

DetectionError == "Unable to detect CSV delimiter. Please specify delimiter manually."

\* C28: on every content Validator.detectDelimiter returns what
\* CSVToJSONConverter.detectDelimiter returns, and validateCSV reports
\* 'Unable to detect CSV delimiter' exactly when convert, with no delimiter
\* configured, fails with its detection error.
C28_DetectorsAgree ==
    call.op = "validatorDetectDelimiter" =>
        /\ ret.value = call.delimiter
        /\ (\E i \in 1..Len(ret.fields) : ret.fields[i].message = "Unable to detect CSV delimiter")
              <=> (~ret.result.success /\ ret.result.error = DetectionError)

\* The columns of the text convert writes for a parsed value.
ColumnsOf(opt, value) ==
    IF value.t = "obj" THEN Keys(value.o)
    ELSE IF Len(value.a) = 0 THEN <<>>
    ELSE IF \E i \in 1..Len(value.a) : IsObject(value.a[i])
    THEN (IF opt.flattenObjects THEN extractFlattenedKeys(opt, value.a)
          ELSE extractAllKeys(value.a))
    ELSE <<<<"v", "a", "l", "u", "e">>>>

\* C24: a successful JSONToCSVConverter.convert reports as rows the number
\* of records it wrote (the elements of an array, 1 for an object) and as
\* columns the number of columns of the text.
C24_CountsOfConvert ==
    (call.op = "jsonConvert" /\ ret.result.success) =>
        /\ ret.result.rows = (IF call.json.value.t = "arr" THEN Len(call.json.value.a) ELSE 1)
        /\ ret.result.columns = Len(ColumnsOf(jsonOptions, call.json.value))

\* The number of fields the tokenizer finds in a row of the text.
FieldsOfRow(opt, row) ==
    Len(ScanLine(row, Str(opt.delimiter), TRUE, 1, FALSE, <<>>, <<>>).fields)

\* C25: every row convertArrayOfObjects writes, the header row and the row
\* of every element, has as many fields as there are columns.
C25_RowsHaveAllColumns ==
    (call.op = "convertArrayOfObjects" /\ Len(ret.fields) > 0) =>
        \A r \in 1..Len(ArrayOfObjectsRows(jsonOptions, call.arg, ret.fields)) :
            FieldsOfRow(jsonOptions, ArrayOfObjectsRows(jsonOptions, call.arg, ret.fields)[r])
                = Len(ret.fields)

\* The field texts of the header row of a text, trimmed: the fields the
\* tokenizer closes on the first line, before any coercion.
HeaderTexts(text, delimiter) ==
    [i \in 1..Len(ScanLine(NonBlankLines(removeBOM(text))[1], delimiter, TRUE, 1, FALSE,
                           <<>>, <<>>).fields) |->
        trim(ScanLine(NonBlankLines(removeBOM(text))[1], delimiter, TRUE, 1, FALSE,
                      <<>>, <<>>).fields[i])]

\* C26: with hasHeaders on and no customHeaders the keys of every record
\* are the field texts of the header row as they stand in the text; header
\* cells with distinct texts give as many keys as there are cells.
C26_HeaderTextsAreKeys ==
    (/\ call.op = "convert"
     /\ ret.result.success
     /\ csvOptions.hasHeaders
     /\ csvOptions.trimValues
     /\ csvOptions.customHeaders = Null
     /\ csvOptions.headerMapping = Null
     /\ csvOptions.outputFormat = "array"
     /\ ~csvOptions.nestedOutput
     /\ csvOptions.delimiter = Null
     /\ \A i, j \in 1..Len(HeaderTexts(call.arg, detectDelimiter(removeBOM(call.arg)))) :
           i # j => HeaderTexts(call.arg, detectDelimiter(removeBOM(call.arg)))[i]
                      # HeaderTexts(call.arg, detectDelimiter(removeBOM(call.arg)))[j])
    => \A r \in 1..Len(ret.result.parsed.a) :
          {Keys(ret.result.parsed.a[r].o)[k] : k \in 1..Len(ret.result.parsed.a[r].o)}
             = {HeaderTexts(call.arg, detectDelimiter(removeBOM(call.arg)))[i] :
                  i \in 1..Len(HeaderTexts(call.arg, detectDelimiter(removeBOM(call.arg))))}

\* ------------------------------------------------------------------------
\* setNestedValue on the objects of the host (C27)
\* ------------------------------------------------------------------------
NextObjects == NewObject \/ SetNestedValue \/ PushRecord \/ Done

SpecObjects == InitValidator /\ [][NextObjects]_vars

\* The objects inside obj: obj and the objects its own properties, and
\* theirs, refer to.
OwnRefs(heap, id) ==
    {heap[id].props[k].v.m : k \in {j \in 1..Len(heap[id].props) : heap[id].props[j].v.t = "ref"}}

RECURSIVE InsideFrom(_, _, _)
InsideFrom(heap, ids, n) ==
    IF n = 0 THEN ids
    ELSE InsideFrom(heap, ids \cup UNION {OwnRefs(heap, id) : id \in ids}, n - 1)

Inside(heap, obj) == InsideFrom(heap, {obj}, Len(heap))

\* C27: a call of setNestedValue(obj, path, value) changes no object that
\* was there before the call and is not inside obj: not Object.prototype
\* and not a record built before.
C27_OnlyObjChanged ==
    [][(call'.op = "setNestedValue" /\ call.op = "idle")
          => \A id \in 1..Len(objects.heap) :
                id \notin Inside(objects.heap, objects.obj)
                   => objects'.heap[id] = objects.heap[id]]_vars

\* ------------------------------------------------------------------------
\* The ParseKIT controller (C29)
\* ------------------------------------------------------------------------
NextApp ==
    \/ HandleFile \/ ReadFile \/ HandleManualInput \/ ClearInput \/ ToggleDirection
    \/ SettingsChange \/ CtrlEnter \/ ConvertClick \/ Done

SpecApp == InitValidator /\ [][NextApp]_vars

\* C29: whenever the controller calls a converter, it is the converter of
\* the current direction and the content it is given is the input the page
\* shows: the file loaded or the text of the textarea.
C29_ConvertsDisplayedInput ==
    call.op \in {"jsonToCsv.convert", "csvToJson.convert"} =>
        /\ call.op = (IF app.currentMode = "json-to-csv" THEN "jsonToCsv.convert"
                      ELSE "csvToJson.convert")
        /\ call.arg # <<>>
        /\ call.arg \in {app.file.csv, app.textarea.csv}

\* ------------------------------------------------------------------------
\* The FileHandler and its reads (C30)
\* ------------------------------------------------------------------------
NextFiles == HandleFile \/ ReadFile \/ ClearFile

SpecFiles == InitValidator /\ [][NextFiles]_vars

\* C30: once every read has completed, the handler shows the user's last
\* action: after handleFile(B), B being a file whose content is valid, its
\* file, its type and the content of the
\* last fileLoaded event are B's and that event is the last one; after
\* clearFile there is no file and the last event is fileCleared.
C30_LastActionWins ==
    (/\ fileHandler.reads = {}
     /\ fileHandler.last.op # "none"
     /\ fileHandler.last.op = "handleFile"
           => validateFileContent(fileHandler.last.file.content,
                                  getFileType(fileHandler.last.file)).valid) =>
        IF fileHandler.last.op = "handleFile"
        THEN /\ fileHandler.currentFile = fileHandler.last.file
             /\ fileHandler.currentFileType = getFileType(fileHandler.last.file)
             /\ fileHandler.lastEvent.type = "fileLoaded"
             /\ fileHandler.lastEvent.content = fileHandler.last.file.content
        ELSE /\ fileHandler.currentFile = NoFile
             /\ fileHandler.lastEvent.type = "fileCleared"
====
